---- MODULE Spec2Model ----
(***************************************************************************)
(* Verification model of tennis-lab: the score state machines (game,       *)
(* tiebreak, set, match), the path generators built on them, and the path  *)
(* probability evaluators / win-probability aggregators.                   *)
(*                                                                         *)
(* A score is a pair <<p1, p2>> of counts; the format and the per-score    *)
(* flags (isSuper, isFinalSet) are carried next to it.  Probabilities are  *)
(* exact rationals <<num, den>>.  A raised exception is a result record    *)
(* with raised = TRUE (or ok = FALSE for a constructor).                   *)
(***************************************************************************)
EXTENDS Integers, Sequences, FiniteSets, TLC

VARIABLES
  level,       \* which score class the run is about: "game", "tiebreak", "set", "match"
  fmt,         \* the MatchFormat object
  isSuper,     \* TiebreakScore._isSuper
  isFinalSet,  \* SetScore._isFinalSet
  raw,         \* the (pointsP1, pointsP2) pair handed to the constructor
  server,      \* playerServing / playerToServe argument
  pc,          \* position of the caller
  score,       \* the constructed score object's counts
  succ,        \* result of the successor operation
  paths,       \* the 'paths' argument of the current _extendPaths frame
  passes,      \* number of _extendPaths frames entered so far
  probs,       \* <<probWinPointP1, probWinPointP2>> handed to the evaluators
  result,      \* what the evaluators returned
  sub,         \* the gameScore / tiebreakScore / setScore argument of a composite constructor
  cur,         \* the score object that recordPoint is called on
  played,      \* number of recordPoint calls made so far
  err,         \* how the last recordPoint call ended: "none" or the exception class
  twin,        \* a game / tiebreak score built from the same arguments with capping off
  arg,         \* the players handed to the latest call, as a list (<<>> before any)
  cache,       \* the loaded tiebreak win-probability function (<<>> before loading)
  heap         \* the MatchFormat, GameScore and GamePath objects a caller's references reach

vars == <<level, fmt, isSuper, isFinalSet, raw, server, pc, score, succ,
          paths, passes, probs, result, sub, cur, played, err, twin, arg, cache, heap>>

playVars == <<sub, cur, played, err, twin, arg, cache, heap>>

\* objects are addressed by their index: heap.fmt[a] is a MatchFormat object,
\* heap.score[a] a GameScore object (its points and the address of its
\* _matchFormat), heap.path[a] a GamePath object (the addresses in its _scores)
NoHeap == [fmt |-> <<>>, score |-> <<>>, path |-> <<>>]

----------------------------------------------------------------------------
(* Bounds of the model *)

MaxPoints     == 6    \* game constructor arguments range over -1..MaxPoints
TBWindow      == 2    \* tiebreak arguments range over pointsToWin-1-TBWindow .. pointsToWin+TBWindow
MaxSetLength  == 2    \* MatchFormat.setLength ranges over 1..MaxSetLength
MaxBestOf     == 5    \* MatchFormat.bestOfSets ranges over 1..MaxBestOf
MaxPlayed     == 4    \* number of recordPoint calls made on one object
MaxPasses     == 13   \* recursion depth of _extendPaths the interpreter can afford

(* Program constants *)

NUM_POINTS_WIN               == 4
POINTS_TO_WIN_TIEBREAK       == 7
POINTS_TO_WIN_SUPER_TIEBREAK == 10
DefaultSetLength             == 6

ADVANTAGE     == "advantage"
TIEBREAK      == "tiebreak"
SUPERTIEBREAK == "supertiebreak"
SetEnding     == {ADVANTAGE, TIEBREAK, SUPERTIEBREAK}

Players == {1, 2}

\* MatchFormat.__init__ with its default arguments
MatchFormat(bestOfSets, setLength, setEnding, finalSetEnding, noAdRule, capPoints) ==
  [bestOfSets |-> bestOfSets, setLength |-> setLength, setEnding |-> setEnding,
   finalSetEnding |-> finalSetEnding, noAdRule |-> noAdRule, capPoints |-> capPoints]

\* bestOfSets = 0 stands for None
DefaultFormat == MatchFormat(0, DefaultSetLength, TIEBREAK, TIEBREAK, FALSE, TRUE)

Abs(x) == IF x < 0 THEN -x ELSE x

----------------------------------------------------------------------------
(* Exact rational arithmetic standing in for Python floats *)

RECURSIVE GCD(_, _)
GCD(a, b) == IF b = 0 THEN a ELSE GCD(b, a % b)

RNorm(n, d) == LET g == GCD(Abs(n), d) IN <<n \div g, d \div g>>
RZero == <<0, 1>>
ROne  == <<1, 1>>
RAdd(x, y) == LET g == GCD(x[2], y[2])
              IN RNorm(x[1] * (y[2] \div g) + y[1] * (x[2] \div g), (x[2] \div g) * y[2])
RSub(x, y) == RAdd(x, <<-y[1], y[2]>>)
RMul(x, y) == LET a == RNorm(x[1], y[2])
                  b == RNorm(y[1], x[2])
              IN <<a[1] * b[1], a[2] * b[2]>>
RDiv(x, y) == IF y[1] > 0 THEN RMul(x, <<y[2], y[1]>>) ELSE RMul(x, <<-y[2], -y[1]>>)
RIsZero(x) == x[1] = 0

\* sum of a sequence of rationals (the accumulation loops of the aggregators)
RECURSIVE RSum(_, _, _)
RSum(xs, lo, hi) ==
  IF lo > hi THEN RZero
  ELSE IF lo = hi THEN xs[lo]
  ELSE LET mid == (lo + hi) \div 2 IN RAdd(RSum(xs, lo, mid), RSum(xs, mid + 1, hi))

\* concatenation of a sequence of sequences (list.extend / list.append in a loop)
RECURSIVE Flatten(_, _, _)
Flatten(ss, lo, hi) ==
  IF lo > hi THEN <<>>
  ELSE IF lo = hi THEN ss[lo]
  ELSE LET mid == (lo + hi) \div 2 IN Flatten(ss, lo, mid) \o Flatten(ss, mid + 1, hi)

Last(seq) == seq[Len(seq)]

----------------------------------------------------------------------------
(* GameScore *)

GameScore_isValidScore(p1, p2) ==
  IF p1 < 0 \/ p2 < 0 THEN FALSE
  ELSE IF p1 <= NUM_POINTS_WIN - 1 /\ p2 <= NUM_POINTS_WIN - 1 THEN TRUE
  ELSE IF \/ (p1 = NUM_POINTS_WIN /\ p2 <= NUM_POINTS_WIN - 2)
          \/ (p2 = NUM_POINTS_WIN /\ p1 <= NUM_POINTS_WIN - 2) THEN TRUE
  ELSE Abs(p1 - p2) <= 2

\* variant of isDeuce that already holds at 2-2
GameScore_isDeuce_m(s) == s[1] = s[2] /\ s[1] >= NUM_POINTS_WIN - 2

GameScore_isDeuce(s) == s[1] = s[2] /\ s[1] >= NUM_POINTS_WIN - 1

GameScore_playerWithAdvantage(s) ==
  IF s[1] - s[2] = 1 /\ s[1] >= NUM_POINTS_WIN THEN 1
  ELSE IF s[2] - s[1] = 1 /\ s[2] >= NUM_POINTS_WIN THEN 2
  ELSE 0

\* variant of _playerWon that reports Player2 as having won whenever the game is decided
GameScore_playerWon_m(s, player, f) ==
  LET P1_won == IF f.noAdRule
                THEN s[1] = NUM_POINTS_WIN /\ s[2] < NUM_POINTS_WIN
                ELSE s[1] >= NUM_POINTS_WIN /\ s[1] - s[2] > 1
      P2_won == IF f.noAdRule
                THEN s[2] = NUM_POINTS_WIN /\ s[1] < NUM_POINTS_WIN
                ELSE s[2] >= NUM_POINTS_WIN /\ s[2] - s[1] > 1
  IN IF player = 1 THEN P1_won ELSE P1_won \/ P2_won

GameScore_playerWon(s, player, f) ==
  LET P1_won == IF f.noAdRule
                THEN s[1] = NUM_POINTS_WIN /\ s[2] < NUM_POINTS_WIN
                ELSE s[1] >= NUM_POINTS_WIN /\ s[1] - s[2] > 1
      P2_won == IF f.noAdRule
                THEN s[2] = NUM_POINTS_WIN /\ s[1] < NUM_POINTS_WIN
                ELSE s[2] >= NUM_POINTS_WIN /\ s[2] - s[1] > 1
  IN IF player = 1 THEN P1_won ELSE P2_won

GameScore_isFinal(s, f) == GameScore_playerWon(s, 1, f) \/ GameScore_playerWon(s, 2, f)

GameScore_winner(s, f) ==
  IF GameScore_playerWon(s, 1, f) THEN 1
  ELSE IF GameScore_playerWon(s, 2, f) THEN 2
  ELSE 0

GameScore_cap_score(s) ==
  IF GameScore_isDeuce(s) THEN <<NUM_POINTS_WIN - 1, NUM_POINTS_WIN - 1>>
  ELSE IF GameScore_playerWithAdvantage(s) = 1 THEN <<NUM_POINTS_WIN, NUM_POINTS_WIN - 1>>
  ELSE IF GameScore_playerWithAdvantage(s) = 2 THEN <<NUM_POINTS_WIN - 1, NUM_POINTS_WIN>>
  ELSE s

\* GameScore.__init__: ok = FALSE is the ValueError
GameScore_init(p1, p2, f) ==
  IF ~GameScore_isValidScore(p1, p2) THEN [ok |-> FALSE, s |-> <<p1, p2>>]
  ELSE [ok |-> TRUE, s |-> IF f.capPoints THEN GameScore_cap_score(<<p1, p2>>) ELSE <<p1, p2>>]

\* none = TRUE is the None result, raised = TRUE a ValueError from a constructor
GameScore_nextScores(s, f) ==
  IF GameScore_isFinal(s, f) THEN [none |-> TRUE, raised |-> FALSE, s1 |-> s, s2 |-> s]
  ELSE LET c1 == GameScore_init(s[1] + 1, s[2], f)
           c2 == GameScore_init(s[1], s[2] + 1, f)
       IN [none |-> FALSE, raised |-> ~c1.ok \/ ~c2.ok, s1 |-> c1.s, s2 |-> c2.s]

\* GameScore.recordPoint on a score that is not final
GameScore_recordPoint(s, pointWinner, f) ==
  LET t == <<s[1] + (IF pointWinner = 1 THEN 1 ELSE 0), s[2] + (IF pointWinner = 2 THEN 1 ELSE 0)>>
  IN IF f.capPoints THEN GameScore_cap_score(t) ELSE t

----------------------------------------------------------------------------
(* TiebreakScore *)

TiebreakScore_pointsToWin(super) ==
  IF super THEN POINTS_TO_WIN_SUPER_TIEBREAK ELSE POINTS_TO_WIN_TIEBREAK

TiebreakScore_isValidScore(p1, p2, super) ==
  LET pointsToWin == TiebreakScore_pointsToWin(super)
  IN IF p1 < 0 \/ p2 < 0 THEN FALSE
     ELSE IF p1 <= pointsToWin /\ p2 <= pointsToWin THEN TRUE
     ELSE Abs(p1 - p2) <= 2

\* variant of isDeuce that already holds one point earlier
TiebreakScore_isDeuce_m(s, super) ==
  s[1] = s[2] /\ s[1] >= TiebreakScore_pointsToWin(super) - 2

TiebreakScore_isDeuce(s, super) ==
  s[1] = s[2] /\ s[1] >= TiebreakScore_pointsToWin(super) - 1

TiebreakScore_playerWithAdvantage(s, super) ==
  IF s[1] - s[2] = 1 /\ s[1] >= TiebreakScore_pointsToWin(super) THEN 1
  ELSE IF s[2] - s[1] = 1 /\ s[2] >= TiebreakScore_pointsToWin(super) THEN 2
  ELSE 0

TiebreakScore_playerWon(s, player, super) ==
  LET P1_won == s[1] >= TiebreakScore_pointsToWin(super) /\ s[1] - s[2] > 1
      P2_won == s[2] >= TiebreakScore_pointsToWin(super) /\ s[2] - s[1] > 1
  IN IF player = 1 THEN P1_won ELSE P2_won

TiebreakScore_isFinal(s, super) ==
  TiebreakScore_playerWon(s, 1, super) \/ TiebreakScore_playerWon(s, 2, super)

TiebreakScore_winner(s, super) ==
  IF TiebreakScore_playerWon(s, 1, super) THEN 1
  ELSE IF TiebreakScore_playerWon(s, 2, super) THEN 2
  ELSE 0

TiebreakScore_normalize_score(s, super) ==
  LET n == TiebreakScore_pointsToWin(super)
  IN IF TiebreakScore_isDeuce(s, super) THEN <<n - 1, n - 1>>
     ELSE IF TiebreakScore_playerWithAdvantage(s, super) = 1 THEN <<n, n - 1>>
     ELSE IF TiebreakScore_playerWithAdvantage(s, super) = 2 THEN <<n - 1, n>>
     ELSE s

\* TiebreakScore.__init__; 'normalize' is the format's capPoints
TiebreakScore_init(p1, p2, super, normalize) ==
  IF ~TiebreakScore_isValidScore(p1, p2, super) THEN [ok |-> FALSE, s |-> <<p1, p2>>]
  ELSE [ok |-> TRUE,
        s  |-> IF normalize THEN TiebreakScore_normalize_score(<<p1, p2>>, super) ELSE <<p1, p2>>]

TiebreakScore_nextScores(s, super, normalize) ==
  IF TiebreakScore_isFinal(s, super) THEN [none |-> TRUE, raised |-> FALSE, s1 |-> s, s2 |-> s]
  ELSE LET c1 == TiebreakScore_init(s[1] + 1, s[2], super, normalize)
           c2 == TiebreakScore_init(s[1], s[2] + 1, super, normalize)
       IN [none |-> FALSE, raised |-> ~c1.ok \/ ~c2.ok, s1 |-> c1.s, s2 |-> c2.s]

TiebreakScore_recordPoint(s, pointWinner, super, normalize) ==
  LET t == <<s[1] + (IF pointWinner = 1 THEN 1 ELSE 0), s[2] + (IF pointWinner = 2 THEN 1 ELSE 0)>>
  IN IF normalize THEN TiebreakScore_normalize_score(t, super) ELSE t

----------------------------------------------------------------------------
(* SetScore (games granularity; hasGame / hasTiebreak say whether an initial *)
(* game score or tiebreak score was handed to the constructor)               *)

SetScore_endsInTiebreak(f, finalSet) ==
  LET ending == IF finalSet THEN f.finalSetEnding ELSE f.setEnding
  IN ending # ADVANTAGE

SetScore_isValidScore(initGamesP1, initGamesP2, hasGame, hasTiebreak, setLength, tiebreakSet) ==
  LET n == setLength
      p1WonSet == IF tiebreakSet
                  THEN \/ (initGamesP1 = n /\ initGamesP2 <= n - 2)
                       \/ (initGamesP1 = n + 1 /\ initGamesP2 \in {n - 1, n})
                  ELSE initGamesP1 >= n /\ initGamesP1 - initGamesP2 >= 2
      p2WonSet == IF tiebreakSet
                  THEN \/ (initGamesP2 = n /\ initGamesP1 <= n - 2)
                       \/ (initGamesP2 = n + 1 /\ initGamesP1 \in {n - 1, n})
                  ELSE initGamesP2 >= n /\ initGamesP2 - initGamesP1 >= 2
      isOver == p1WonSet \/ p2WonSet
      isTied == initGamesP1 = initGamesP2 /\ initGamesP2 = n
  IN IF tiebreakSet /\ (initGamesP1 < 0 \/ initGamesP1 > n + 1) THEN FALSE
     ELSE IF tiebreakSet /\ (initGamesP2 < 0 \/ initGamesP2 > n + 1) THEN FALSE
     ELSE IF tiebreakSet /\ initGamesP1 = n + 1 /\ initGamesP2 < n - 1 THEN FALSE
     ELSE IF tiebreakSet /\ initGamesP2 = n + 1 /\ initGamesP1 < n - 1 THEN FALSE
     ELSE IF ~tiebreakSet /\ (initGamesP1 < 0 \/ initGamesP2 < 0) THEN FALSE
     ELSE IF isOver /\ (hasGame \/ hasTiebreak) THEN FALSE
     ELSE IF tiebreakSet /\ isTied /\ hasGame THEN FALSE
     ELSE IF hasTiebreak /\ (~isTied \/ ~tiebreakSet) THEN FALSE
     ELSE TRUE

SetScore_isTied(s, f) == s[1] = s[2] /\ s[2] = f.setLength

SetScore_playerWon(s, player, f, finalSet) ==
  LET playerGames   == IF player = 1 THEN s[1] ELSE s[2]
      opponentGames == IF player = 1 THEN s[2] ELSE s[1]
      n             == f.setLength
      wonByTwo      == playerGames >= n /\ opponentGames <= playerGames - 2
      wonTiebreak   == playerGames = n + 1 /\ opponentGames = n
  IN IF SetScore_endsInTiebreak(f, finalSet) THEN wonTiebreak \/ wonByTwo ELSE wonByTwo

SetScore_isFinal(s, f, finalSet) ==
  SetScore_playerWon(s, 1, f, finalSet) \/ SetScore_playerWon(s, 2, f, finalSet)

SetScore_winner(s, f, finalSet) ==
  IF SetScore_playerWon(s, 1, f, finalSet) THEN 1
  ELSE IF SetScore_playerWon(s, 2, f, finalSet) THEN 2
  ELSE 0

SetScore_nextPointIsGame(s, f, finalSet) ==
  (~SetScore_isTied(s, f) \/ ~SetScore_endsInTiebreak(f, finalSet)) /\ ~SetScore_isFinal(s, f, finalSet)

\* variant of nextPointIsTiebreak that ignores the set's ending rule
SetScore_nextPointIsTiebreak_m(s, f, finalSet) ==
  SetScore_isTied(s, f) /\ ~SetScore_isFinal(s, f, finalSet)

SetScore_nextPointIsTiebreak(s, f, finalSet) ==
  (SetScore_isTied(s, f) /\ SetScore_endsInTiebreak(f, finalSet)) /\ ~SetScore_isFinal(s, f, finalSet)

\* SetScore.__init__ without gameScore / tiebreakScore arguments
SetScore_init(gamesP1, gamesP2, finalSet, f) ==
  [ok |-> SetScore_isValidScore(gamesP1, gamesP2, FALSE, FALSE, f.setLength,
                                SetScore_endsInTiebreak(f, finalSet)),
   s  |-> <<gamesP1, gamesP2>>]

\* SetScore.nextGameScores of a score with no game or tiebreak in progress
SetScore_nextGameScores(s, f, finalSet) ==
  IF SetScore_isFinal(s, f, finalSet) THEN [none |-> TRUE, raised |-> FALSE, s1 |-> s, s2 |-> s]
  ELSE LET c1 == SetScore_init(s[1] + 1, s[2], finalSet, f)
           c2 == SetScore_init(s[1], s[2] + 1, finalSet, f)
       IN [none |-> FALSE, raised |-> ~c1.ok \/ ~c2.ok, s1 |-> c1.s, s2 |-> c2.s]

----------------------------------------------------------------------------
(* MatchScore (sets granularity; hasSet says whether an initial set score *)
(* was handed to the constructor)                                         *)

\* variant of setsToWin that asks for one set more
MatchScore_setsToWin_m(f) == (f.bestOfSets \div 2) + 2

MatchScore_setsToWin(f) == (f.bestOfSets \div 2) + 1

MatchScore_isValidScore(initSetsP1, initSetsP2, hasSet, f) ==
  LET setsToWin  == MatchScore_setsToWin(f)
      p1WonMatch == initSetsP1 = setsToWin
      p2WonMatch == initSetsP2 = setsToWin
      isFinal    == p1WonMatch \/ p2WonMatch
  IN IF initSetsP1 < 0 \/ initSetsP1 > setsToWin THEN FALSE
     ELSE IF initSetsP2 < 0 \/ initSetsP2 > setsToWin THEN FALSE
     ELSE IF isFinal /\ hasSet THEN FALSE
     ELSE TRUE

MatchScore_playerWon(s, player, f) ==
  LET playerSets == IF player = 1 THEN s[1] ELSE s[2]
  IN playerSets = MatchScore_setsToWin(f)

MatchScore_isFinal(s, f) == MatchScore_playerWon(s, 1, f) \/ MatchScore_playerWon(s, 2, f)

MatchScore_winner(s, f) ==
  IF MatchScore_playerWon(s, 1, f) THEN 1
  ELSE IF MatchScore_playerWon(s, 2, f) THEN 2
  ELSE 0

MatchScore_isFinalSet(s, f) ==
  s[1] = MatchScore_setsToWin(f) - 1 \/ s[2] = MatchScore_setsToWin(f) - 1

\* MatchScore.__init__ without a setScore argument
MatchScore_init(setsP1, setsP2, f) ==
  [ok |-> MatchScore_isValidScore(setsP1, setsP2, FALSE, f), s |-> <<setsP1, setsP2>>]

\* MatchScore.nextSetScores of a score with no set in progress
MatchScore_nextSetScores(s, f) ==
  IF MatchScore_isFinal(s, f) THEN [none |-> TRUE, raised |-> FALSE, s1 |-> s, s2 |-> s]
  ELSE LET c1 == MatchScore_init(s[1] + 1, s[2], f)
           c2 == MatchScore_init(s[1], s[2] + 1, f)
       IN [none |-> FALSE, raised |-> ~c1.ok \/ ~c2.ok, s1 |-> c1.s, s2 |-> c2.s]

----------------------------------------------------------------------------
(* Paths.  A path is a sequence of entries; srv is the PathEntry's server   *)
(* (0 where the path class keeps none), won is a history field recording    *)
(* which of the two successors the entry was appended as (0 for the seed).  *)

Entry(sc, srv, won) == [score |-> sc, srv |-> srv, won |-> won]

\* the score progression of a path (scoreHistory without the bookkeeping)
ScoresOf(path) == [i \in 1..Len(path) |-> path[i].score]

(* GamePath *)

GamePath_init(initialScore) == <<Entry(initialScore, 0, 0)>>

\* variant of increment that loses the branch where P2 wins the point
GamePath_increment_m(path, f) ==
  LET lastScore == Last(path).score
  IN IF GameScore_isFinal(lastScore, f) THEN [raised |-> FALSE, new |-> <<path>>]
     ELSE LET nextScores == GameScore_nextScores(lastScore, f)
          IN [raised |-> nextScores.raised,
              new    |-> <<Append(path, Entry(nextScores.s1, 0, 1))>>]

GamePath_increment(path, f) ==
  LET lastScore == Last(path).score
  IN IF GameScore_isFinal(lastScore, f) THEN [raised |-> FALSE, new |-> <<path>>]
     ELSE LET nextScores == GameScore_nextScores(lastScore, f)
          IN [raised |-> nextScores.raised,
              new    |-> <<Append(path, Entry(nextScores.s1, 0, 1)),
                           Append(path, Entry(nextScores.s2, 0, 2))>>]

\* variant of _incrementPaths that stops at deuce under the no-ad rule too
GamePath_incrementPaths_m(ps, f) ==
  LET one(path) ==
        LET lastScore == Last(path).score
            isDeuce   == GameScore_isDeuce(lastScore)
        IN IF isDeuce THEN [raised |-> FALSE, new |-> <<path>>]
           ELSE IF ~GameScore_isFinal(lastScore, f) THEN GamePath_increment(path, f)
           ELSE [raised |-> FALSE, new |-> <<path>>]
      each == [i \in 1..Len(ps) |-> one(ps[i])]
  IN [raised |-> \E i \in 1..Len(ps) : each[i].raised,
      paths  |-> Flatten([i \in 1..Len(ps) |-> each[i].new], 1, Len(ps))]

GamePath_incrementPaths(ps, f) ==
  LET one(path) ==
        LET lastScore       == Last(path).score
            isDeuce         == GameScore_isDeuce(lastScore)
            standardScoring == ~f.noAdRule
        IN IF isDeuce /\ standardScoring THEN [raised |-> FALSE, new |-> <<path>>]
           ELSE IF ~GameScore_isFinal(lastScore, f) THEN GamePath_increment(path, f)
           ELSE [raised |-> FALSE, new |-> <<path>>]
      each == [i \in 1..Len(ps) |-> one(ps[i])]
  IN [raised |-> \E i \in 1..Len(ps) : each[i].raised,
      paths  |-> Flatten([i \in 1..Len(ps) |-> each[i].new], 1, Len(ps))]

\* _extendPaths; the increment is computed once per frame, as in the code
RECURSIVE GamePath_extendPaths(_, _)
GamePath_extendPaths(ps, f) ==
  CHOOSE r \in {IF pathsIncremented.raised THEN [raised |-> TRUE, paths |-> ps]
                ELSE IF Len(pathsIncremented.paths) = Len(ps) THEN [raised |-> FALSE, paths |-> ps]
                ELSE GamePath_extendPaths(pathsIncremented.paths, f) :
                pathsIncremented \in {GamePath_incrementPaths(ps, f)}} : TRUE

GamePath_generateAllPaths(initialScore, f) ==
  GamePath_extendPaths(<<GamePath_init(initialScore)>>, f)

(* TiebreakPath *)

TiebreakPath_init(initialScore, playerServing) == <<Entry(initialScore, playerServing, 0)>>

\* variant of increment that changes the serve after the even-numbered points
TiebreakPath_increment_m(path, super, normalize) ==
  LET lastEntry == Last(path)
      lastScore == lastEntry.score
  IN IF TiebreakScore_isFinal(lastScore, super) THEN [raised |-> FALSE, new |-> <<path>>]
     ELSE LET nextScores        == TiebreakScore_nextScores(lastScore, super, normalize)
              pointsPlayed      == lastScore[1] + lastScore[2]
              switchServe       == pointsPlayed % 2 = 1
              playerServingNext == IF switchServe THEN 3 - lastEntry.srv ELSE lastEntry.srv
          IN [raised |-> nextScores.raised,
              new    |-> <<Append(path, Entry(nextScores.s1, playerServingNext, 1)),
                           Append(path, Entry(nextScores.s2, playerServingNext, 2))>>]

TiebreakPath_increment(path, super, normalize) ==
  LET lastEntry == Last(path)
      lastScore == lastEntry.score
  IN IF TiebreakScore_isFinal(lastScore, super) THEN [raised |-> FALSE, new |-> <<path>>]
     ELSE LET nextScores        == TiebreakScore_nextScores(lastScore, super, normalize)
              pointsPlayed      == lastScore[1] + lastScore[2]
              switchServe       == pointsPlayed % 2 = 0
              playerServingNext == IF switchServe THEN 3 - lastEntry.srv ELSE lastEntry.srv
          IN [raised |-> nextScores.raised,
              new    |-> <<Append(path, Entry(nextScores.s1, playerServingNext, 1)),
                           Append(path, Entry(nextScores.s2, playerServingNext, 2))>>]

\* variant of _incrementPaths that keeps extending a path that sits at a tie
TiebreakPath_incrementPaths_m(ps, super, normalize) ==
  LET one(path) ==
        LET lastScore == Last(path).score
        IN IF ~TiebreakScore_isFinal(lastScore, super)
           THEN TiebreakPath_increment(path, super, normalize)
           ELSE [raised |-> FALSE, new |-> <<path>>]
      each == [i \in 1..Len(ps) |-> one(ps[i])]
  IN [raised |-> \E i \in 1..Len(ps) : each[i].raised,
      paths  |-> Flatten([i \in 1..Len(ps) |-> each[i].new], 1, Len(ps))]

TiebreakPath_incrementPaths(ps, super, normalize) ==
  LET one(path) ==
        LET lastScore == Last(path).score
        IN IF TiebreakScore_isDeuce(lastScore, super) THEN [raised |-> FALSE, new |-> <<path>>]
           ELSE IF ~TiebreakScore_isFinal(lastScore, super)
                THEN TiebreakPath_increment(path, super, normalize)
           ELSE [raised |-> FALSE, new |-> <<path>>]
      each == [i \in 1..Len(ps) |-> one(ps[i])]
  IN [raised |-> \E i \in 1..Len(ps) : each[i].raised,
      paths  |-> Flatten([i \in 1..Len(ps) |-> each[i].new], 1, Len(ps))]

(* SetPath *)

SetPath_init(initialScore, playerToServe) == <<Entry(initialScore, playerToServe, 0)>>

SetPath_increment(path, f, finalSet) ==
  LET lastEntry == Last(path)
      lastScore == lastEntry.score
  IN IF SetScore_isFinal(lastScore, f, finalSet) THEN [raised |-> FALSE, new |-> <<path>>]
     ELSE LET nextScores        == SetScore_nextGameScores(lastScore, f, finalSet)
              playerServingNext == 3 - lastEntry.srv
          IN [raised |-> nextScores.raised,
              new    |-> <<Append(path, Entry(nextScores.s1, playerServingNext, 1)),
                           Append(path, Entry(nextScores.s2, playerServingNext, 2))>>]

SetPath_incrementPaths(ps, f, finalSet) ==
  LET one(path) ==
        LET lastScore == Last(path).score
        IN IF SetScore_isTied(lastScore, f) THEN [raised |-> FALSE, new |-> <<path>>]
           ELSE IF ~SetScore_isFinal(lastScore, f, finalSet)
                THEN SetPath_increment(path, f, finalSet)
           ELSE [raised |-> FALSE, new |-> <<path>>]
      each == [i \in 1..Len(ps) |-> one(ps[i])]
  IN [raised |-> \E i \in 1..Len(ps) : each[i].raised,
      paths  |-> Flatten([i \in 1..Len(ps) |-> each[i].new], 1, Len(ps))]

(* MatchPath *)

MatchPath_init(initialScore) == <<Entry(initialScore, 0, 0)>>

MatchPath_increment(path, f) ==
  LET lastScore == Last(path).score
  IN IF MatchScore_isFinal(lastScore, f) THEN [raised |-> FALSE, new |-> <<path>>]
     ELSE LET nextScores == MatchScore_nextSetScores(lastScore, f)
          IN [raised |-> nextScores.raised,
              new    |-> <<Append(path, Entry(nextScores.s1, 0, 1)),
                           Append(path, Entry(nextScores.s2, 0, 2))>>]

\* variant of _incrementPaths that extends only the first path of the list
MatchPath_incrementPaths_m(ps, f) ==
  LET one(path) ==
        LET lastScore == Last(path).score
        IN IF ~MatchScore_isFinal(lastScore, f) /\ path = ps[1] THEN MatchPath_increment(path, f)
           ELSE [raised |-> FALSE, new |-> <<path>>]
      each == [i \in 1..Len(ps) |-> one(ps[i])]
  IN [raised |-> \E i \in 1..Len(ps) : each[i].raised,
      paths  |-> Flatten([i \in 1..Len(ps) |-> each[i].new], 1, Len(ps))]

MatchPath_incrementPaths(ps, f) ==
  LET one(path) ==
        LET lastScore == Last(path).score
        IN IF ~MatchScore_isFinal(lastScore, f) THEN MatchPath_increment(path, f)
           ELSE [raised |-> FALSE, new |-> <<path>>]
      each == [i \in 1..Len(ps) |-> one(ps[i])]
  IN [raised |-> \E i \in 1..Len(ps) : each[i].raised,
      paths  |-> Flatten([i \in 1..Len(ps) |-> each[i].new], 1, Len(ps))]

----------------------------------------------------------------------------
(* Path probability evaluators and win-probability aggregators *)

\* product of a sequence of rationals (the 'probPath *= ...' loops)
RECURSIVE RProduct(_, _, _)
RProduct(xs, lo, hi) ==
  IF lo > hi THEN ROne
  ELSE IF lo = hi THEN xs[lo]
  ELSE LET mid == (lo + hi) \div 2 IN RMul(RProduct(xs, lo, mid), RProduct(xs, mid + 1, hi))

Probs       == {<<0, 1>>, <<1, 3>>, <<1, 2>>, <<1, 1>>}
CoarseProbs == {<<0, 1>>, <<1, 2>>, <<1, 1>>}

GameScore_asPoints(s, pov) == IF pov = 1 THEN s ELSE <<s[2], s[1]>>

\* game_probability.pathProbability: did the serving player win the point of step i-1 -> i ?
Game_serverWonPoint(path, i, playerServing) ==
  LET pointsServerCurr == GameScore_asPoints(path[i].score, playerServing)[1]
      pointsServerPrev == GameScore_asPoints(path[i - 1].score, playerServing)[1]
  IN pointsServerCurr > pointsServerPrev

Game_pathProbability(path, playerServing, probWinPoint) ==
  RProduct([k \in 1..(Len(path) - 1) |->
              IF Game_serverWonPoint(path, k + 1, playerServing)
              THEN probWinPoint ELSE RSub(ROne, probWinPoint)],
           1, Len(path) - 1)

\* allPaths is what GamePath.generateAllPaths(initScore) returned
\* variant that credits the paths Player1 won, whoever serves
probabilityServerWinsGame_m(allPaths, playerServing, probWinPoint, f) ==
  LET den == RSub(ROne, RMul(<<2, 1>>, RMul(probWinPoint, RSub(ROne, probWinPoint))))
      probWinPath(path) ==
        LET probPath  == Game_pathProbability(path, playerServing, probWinPoint)
            lastScore == Last(path).score
            winner    == GameScore_winner(lastScore, f)
            deuce     == GameScore_isDeuce(lastScore)
        IN IF deuce THEN RMul(probPath, RDiv(RMul(probWinPoint, probWinPoint), den))
           ELSE RMul(probPath, IF winner = 1 THEN ROne ELSE RZero)
      needsDeuce == \E i \in 1..Len(allPaths) : GameScore_isDeuce(Last(allPaths[i]).score)
  IN IF needsDeuce /\ RIsZero(den) THEN [raised |-> TRUE, value |-> RZero]
     ELSE [raised |-> FALSE,
           value  |-> RSum([i \in 1..Len(allPaths) |-> probWinPath(allPaths[i])], 1, Len(allPaths))]

probabilityServerWinsGame(allPaths, playerServing, probWinPoint, f) ==
  LET den == RSub(ROne, RMul(<<2, 1>>, RMul(probWinPoint, RSub(ROne, probWinPoint))))
      probWinPath(path) ==
        LET probPath  == Game_pathProbability(path, playerServing, probWinPoint)
            lastScore == Last(path).score
            winner    == GameScore_winner(lastScore, f)
            deuce     == GameScore_isDeuce(lastScore)
        IN IF deuce THEN RMul(probPath, RDiv(RMul(probWinPoint, probWinPoint), den))
           ELSE RMul(probPath, IF winner = playerServing THEN ROne ELSE RZero)
      needsDeuce == \E i \in 1..Len(allPaths) : GameScore_isDeuce(Last(allPaths[i]).score)
  IN IF needsDeuce /\ RIsZero(den) THEN [raised |-> TRUE, value |-> RZero]
     ELSE [raised |-> FALSE,
           value  |-> RSum([i \in 1..Len(allPaths) |-> probWinPath(allPaths[i])], 1, Len(allPaths))]

\* tiebreak_probability.pathProbability: did Player1 win the point of step i-1 -> i ?
Tiebreak_P1wonPoint(path, i) == path[i].score[1] > path[i - 1].score[1]

Tiebreak_probScoreChange(path, i, probWinPointP1, probWinPointP2) ==
  LET P1served   == path[i - 1].srv = 1
      P1wonPoint == Tiebreak_P1wonPoint(path, i)
      P2wonPoint == ~P1wonPoint
  IN IF P1served
     THEN (IF P1wonPoint THEN probWinPointP1 ELSE RSub(ROne, probWinPointP1))
     ELSE (IF P2wonPoint THEN probWinPointP2 ELSE RSub(ROne, probWinPointP2))

Tiebreak_pathProbability(path, probWinPointP1, probWinPointP2) ==
  RProduct([k \in 1..(Len(path) - 1) |->
              Tiebreak_probScoreChange(path, k + 1, probWinPointP1, probWinPointP2)],
           1, Len(path) - 1)

\* raised = TRUE is the ZeroDivisionError of num / den
probabilityP1WinsTie(probWinPointP1, probWinPointP2) ==
  IF probWinPointP1 = ROne /\ probWinPointP2 = ROne THEN [raised |-> FALSE, value |-> <<1, 2>>]
  ELSE LET num == RMul(probWinPointP1, RSub(ROne, probWinPointP2))
           den == RSub(RSub(ROne, RMul(probWinPointP1, probWinPointP2)),
                       RMul(RSub(ROne, probWinPointP1), RSub(ROne, probWinPointP2)))
       IN IF RIsZero(den) THEN [raised |-> TRUE, value |-> RZero]
          ELSE [raised |-> FALSE, value |-> RDiv(num, den)]

\* allPaths is what TiebreakPath.generateAllPaths(initScore, playerServing) returned
probabilityP1WinsTiebreak(allPaths, probWinPointP1, probWinPointP2, super) ==
  LET tie == probabilityP1WinsTie(probWinPointP1, probWinPointP2)
      probWinPath(path) ==
        LET probPath  == Tiebreak_pathProbability(path, probWinPointP1, probWinPointP2)
            lastScore == Last(path).score
            winner    == TiebreakScore_winner(lastScore, super)
            deuce     == TiebreakScore_isDeuce(lastScore, super)
        IN IF deuce THEN RMul(probPath, tie.value)
           ELSE RMul(probPath, IF winner = 1 THEN ROne ELSE RZero)
      needsTie == \E i \in 1..Len(allPaths) : TiebreakScore_isDeuce(Last(allPaths[i]).score, super)
  IN IF needsTie /\ tie.raised THEN [raised |-> TRUE, value |-> RZero]
     ELSE [raised |-> FALSE,
           value  |-> RSum([i \in 1..Len(allPaths) |-> probWinPath(allPaths[i])], 1, Len(allPaths))]

\* the paths of a blank game under the default format: GameScore(0, 0)
BlankGamePaths == GamePath_generateAllPaths(<<0, 0>>, DefaultFormat).paths

\* set_probability.pathProbability's probWinGameFunction: the server's game-win
\* probability from a blank game of the default format

probWinGameFunction ==
  [p \in Probs |-> probabilityServerWinsGame(BlankGamePaths, 1, p, DefaultFormat).value]

Set_probScoreChange(path, i, probWinPointP1, probWinPointP2) ==
  LET P1served  == path[i - 1].srv = 1
      P1wonGame == path[i].score[1] > path[i - 1].score[1]
      P2wonGame == ~P1wonGame
  IN IF P1served
     THEN (IF P1wonGame THEN probWinGameFunction[probWinPointP1]
           ELSE RSub(ROne, probWinGameFunction[probWinPointP1]))
     ELSE (IF P2wonGame THEN probWinGameFunction[probWinPointP2]
           ELSE RSub(ROne, probWinGameFunction[probWinPointP2]))

Set_pathProbability(path, probWinPointP1, probWinPointP2) ==
  RProduct([k \in 1..(Len(path) - 1) |->
              Set_probScoreChange(path, k + 1, probWinPointP1, probWinPointP2)],
           1, Len(path) - 1)

\* match_probability.pathProbability; probP1WinsSet is the value its
\* probP1WinsSetFunction(probWinPointP1, probWinPointP2) returned
Match_pathProbability(path, probP1WinsSet) ==
  RProduct([k \in 1..(Len(path) - 1) |->
              LET P1wonSet == path[k + 1].score[1] > path[k].score[1]
              IN IF P1wonSet THEN probP1WinsSet ELSE RSub(ROne, probP1WinsSet)],
           1, Len(path) - 1)

----------------------------------------------------------------------------
(* The win-probability functions that build their own paths *)

\* 0 <= p <= 1
RInUnit(p) == p[1] >= 0 /\ p[1] <= p[2]

\* TiebreakPath._extendPaths and generateAllPaths
RECURSIVE TiebreakPath_extendPaths(_, _, _)
TiebreakPath_extendPaths(ps, super, normalize) ==
  CHOOSE r \in {IF pathsIncremented.raised THEN [raised |-> TRUE, paths |-> ps]
                ELSE IF Len(pathsIncremented.paths) = Len(ps) THEN [raised |-> FALSE, paths |-> ps]
                ELSE TiebreakPath_extendPaths(pathsIncremented.paths, super, normalize) :
                pathsIncremented \in {TiebreakPath_incrementPaths(ps, super, normalize)}} : TRUE

TiebreakPath_generateAllPaths(initialScore, playerServing, super, normalize) ==
  TiebreakPath_extendPaths(<<TiebreakPath_init(initialScore, playerServing)>>, super, normalize)

\* SetPath._extendPaths and generateAllPaths; a frame past MaxPasses is the
\* RecursionError of a path set that never stops growing
RECURSIVE SetPath_extendPaths(_, _, _, _)
SetPath_extendPaths(ps, f, finalSet, frame) ==
  CHOOSE r \in {IF pathsIncremented.raised \/ frame > MaxPasses
                THEN [raised |-> TRUE, paths |-> ps]
                ELSE IF Len(pathsIncremented.paths) = Len(ps) THEN [raised |-> FALSE, paths |-> ps]
                ELSE SetPath_extendPaths(pathsIncremented.paths, f, finalSet, frame + 1) :
                pathsIncremented \in {SetPath_incrementPaths(ps, f, finalSet)}} : TRUE

SetPath_generateAllPaths(initialScore, playerToServe, f, finalSet) ==
  SetPath_extendPaths(<<SetPath_init(initialScore, playerToServe)>>, f, finalSet, 1)

\* probP1WinsTiebreakFunc of _probabilityP1WinsSetFromGameBoundary, as a table:
\* probabilityP1WinsTiebreak(TiebreakScore(0, 0, isSuper=False), server, p1, p2)
probP1WinsTiebreakFunc(pairs) ==
  [srv \in Players |->
     CHOOSE table \in
       {[pp \in pairs |-> probabilityP1WinsTiebreak(allPaths, pp[1], pp[2], FALSE)]
          : allPaths \in {TiebreakPath_generateAllPaths(<<0, 0>>, srv, FALSE, TRUE).paths}}
       : TRUE]

\* set_probability._probabilityP1WinsSetFromGameBoundary on SetScore(games,
\* finalSet, f) without a game or tiebreak in progress; tiebreakFunc is the
\* table above.  err: "ValueError" of the argument checks, "RecursionError"
\* of the path generation, "ZeroDivisionError" of the tiebreak formula
probabilityP1WinsSetFromGameBoundary(games, playerServing, probWinPointP1, probWinPointP2, f, finalSet, tiebreakFunc) ==
  IF playerServing \notin Players \/ ~RInUnit(probWinPointP1) \/ ~RInUnit(probWinPointP2)
  THEN [err |-> "ValueError", value |-> RZero]
  ELSE CHOOSE res \in
         {LET allPaths == gen.paths
              tb(path) == tiebreakFunc[Last(path).srv][<<probWinPointP1, probWinPointP2>>]
              probWinPath(path) ==
                LET probPath  == Set_pathProbability(path, probWinPointP1, probWinPointP2)
                    lastScore == Last(path).score
                    P1won     == SetScore_winner(lastScore, f, finalSet) = 1
                    isTied    == SetScore_isTied(lastScore, f)
                IN IF isTied THEN RMul(probPath, tb(path).value)
                   ELSE RMul(probPath, IF P1won THEN ROne ELSE RZero)
          IN IF gen.raised THEN [err |-> "RecursionError", value |-> RZero]
             ELSE IF \E i \in 1..Len(allPaths) :
                       SetScore_isTied(Last(allPaths[i]).score, f) /\ tb(allPaths[i]).raised
                  THEN [err |-> "ZeroDivisionError", value |-> RZero]
             ELSE [err   |-> "none",
                   value |-> RSum([i \in 1..Len(allPaths) |-> probWinPath(allPaths[i])],
                                  1, Len(allPaths))]
            : gen \in {SetPath_generateAllPaths(games, playerServing, f, finalSet)}}
         : TRUE

\* set_probability.probabilityP1WinsSet for one probWinPointP1, on a set score
\* at a game boundary (case 3) or with the game gameScore in progress (case 1)
probabilityP1WinsSet(games, hasGame, gameScore, playerServing, probWinPointP1, probWinPointP2, f, finalSet, tiebreakFunc) ==
  IF playerServing \notin Players \/ ~RInUnit(probWinPointP2) \/ ~RInUnit(probWinPointP1)
  THEN [err |-> "ValueError", value |-> RZero]
  ELSE IF hasGame
  THEN CHOOSE res \in
         {CHOOSE afterGame \in
            {LET probP1WinsGame == IF playerServing = 1 THEN probServerWinsGame.value
                                   ELSE RSub(ROne, probServerWinsGame.value)
                 nextServer == 3 - playerServing
             IN IF gamePaths.raised THEN [err |-> "RecursionError", value |-> RZero]
                ELSE IF probServerWinsGame.raised
                     THEN [err |-> "ZeroDivisionError", value |-> RZero]
                ELSE IF ~scoreIfWon.ok THEN [err |-> "ValueError", value |-> RZero]
                ELSE CHOOSE afterWon \in
                  {IF pP1WinsSetWon.err # "none" THEN pP1WinsSetWon
                   ELSE IF ~scoreIfLost.ok THEN [err |-> "ValueError", value |-> RZero]
                   ELSE CHOOSE afterLost \in
                     {IF pP1WinsSetLost.err # "none" THEN pP1WinsSetLost
                      ELSE [err   |-> "none",
                            value |-> RAdd(RMul(probP1WinsGame, pP1WinsSetWon.value),
                                           RMul(RSub(ROne, probP1WinsGame),
                                                pP1WinsSetLost.value))]
                        : pP1WinsSetLost \in
                            {probabilityP1WinsSetFromGameBoundary(
                               scoreIfLost.s, nextServer, probWinPointP1, probWinPointP2,
                               f, finalSet, tiebreakFunc)}}
                     : TRUE
                     : pP1WinsSetWon \in
                         {probabilityP1WinsSetFromGameBoundary(
                            scoreIfWon.s, nextServer, probWinPointP1, probWinPointP2,
                            f, finalSet, tiebreakFunc)}}
                  : TRUE
               : probServerWinsGame \in
                   {probabilityServerWinsGame(
                      gamePaths.paths, playerServing,
                      IF playerServing = 1 THEN probWinPointP1 ELSE probWinPointP2, f)},
                 scoreIfWon  \in {SetScore_init(games[1] + 1, games[2], finalSet, f)},
                 scoreIfLost \in {SetScore_init(games[1], games[2] + 1, finalSet, f)}}
            : TRUE
            : gamePaths \in {GamePath_generateAllPaths(gameScore, f)}}
         : TRUE
  ELSE probabilityP1WinsSetFromGameBoundary(games, playerServing, probWinPointP1,
                                            probWinPointP2, f, finalSet, tiebreakFunc)

----------------------------------------------------------------------------
(* The state machine: a caller constructs a score, asks for its successors *)
(* or generates all paths from it, and evaluates the generated paths.      *)

\* a composite score: the sets won and the current set; the current set: the
\* games won, the current game and the current tiebreak (has* = FALSE is None)
BlankSetObj == [games |-> <<0, 0>>, hasGame |-> FALSE, game |-> <<0, 0>>,
                hasTb |-> FALSE, tb |-> <<0, 0>>, super |-> FALSE, finalSet |-> FALSE]
NoObj == [sets |-> <<0, 0>>, hasSet |-> FALSE, set |-> BlankSetObj,
          currentGame |-> FALSE, tiebreaker |-> FALSE]
NoSub == [kind |-> "none", pts |-> <<0, 0>>]

NoSucc   == [none |-> TRUE, raised |-> FALSE, s1 |-> <<0, 0>>, s2 |-> <<0, 0>>]
NoResult == [sum |-> RZero]

GameFormats == {MatchFormat(3, DefaultSetLength, TIEBREAK, TIEBREAK, noAd, cap) :
                  noAd \in BOOLEAN, cap \in BOOLEAN}
TiebreakFormats == {MatchFormat(3, DefaultSetLength, TIEBREAK, TIEBREAK, FALSE, cap) :
                      cap \in BOOLEAN}
SetFormats == {MatchFormat(3, n, e, fe, FALSE, TRUE) :
                 n \in 1..MaxSetLength, e \in SetEnding, fe \in SetEnding}
MatchFormats == {MatchFormat(b, DefaultSetLength, TIEBREAK, TIEBREAK, FALSE, TRUE) :
                   b \in 1..MaxBestOf}

TiebreakArgs(super) ==
  (TiebreakScore_pointsToWin(super) - 1 - TBWindow)..(TiebreakScore_pointsToWin(super) + TBWindow)

Init ==
  /\ \/ /\ level = "game"
        /\ fmt \in GameFormats
        /\ isSuper = FALSE /\ isFinalSet = FALSE
        /\ raw \in (-1..MaxPoints) \X (-1..MaxPoints)
        /\ server \in Players
     \/ /\ level = "tiebreak"
        /\ fmt \in TiebreakFormats
        /\ isSuper \in BOOLEAN /\ isFinalSet = FALSE
        /\ raw \in (TiebreakArgs(isSuper) \X TiebreakArgs(isSuper))
                   \cup (IF isSuper THEN {} ELSE {<<0, 0>>})
        /\ server \in Players
     \/ /\ level = "set"
        /\ fmt \in SetFormats
        /\ isSuper = FALSE /\ isFinalSet \in BOOLEAN
        /\ raw \in (-1..(fmt.setLength + 2)) \X (-1..(fmt.setLength + 2))
        /\ server \in Players
     \/ /\ level = "match"
        /\ fmt \in MatchFormats
        /\ isSuper = FALSE /\ isFinalSet = FALSE
        /\ raw \in (-1..(MatchScore_setsToWin(fmt) + 1)) \X (-1..(MatchScore_setsToWin(fmt) + 1))
        /\ server = 1
  /\ pc = "new"
  /\ score = <<0, 0>>
  /\ succ = NoSucc
  /\ paths = <<>>
  /\ passes = 0
  /\ probs = <<RZero, RZero>>
  /\ result = NoResult
  /\ sub = NoSub
  /\ cur = NoObj
  /\ played = 0
  /\ err = "none"
  /\ twin = <<0, 0>>
  /\ arg = <<>>
  /\ cache = <<>>
  /\ heap = NoHeap

\* the constructor of the level's score class
ScoreInit(lv, p1, p2, f, super, finalSet) ==
  CASE lv = "game"     -> GameScore_init(p1, p2, f)
    [] lv = "tiebreak" -> TiebreakScore_init(p1, p2, super, f.capPoints)
    [] lv = "set"      -> SetScore_init(p1, p2, finalSet, f)
    [] lv = "match"    -> MatchScore_init(p1, p2, f)

\* the successor operation of the level's score class
ScoreNext(lv, s, f, super, finalSet) ==
  CASE lv = "game"     -> GameScore_nextScores(s, f)
    [] lv = "tiebreak" -> TiebreakScore_nextScores(s, super, f.capPoints)
    [] lv = "set"      -> SetScore_nextGameScores(s, f, finalSet)
    [] lv = "match"    -> MatchScore_nextSetScores(s, f)

ScoreIsFinal(lv, s, f, super, finalSet) ==
  CASE lv = "game"     -> GameScore_isFinal(s, f)
    [] lv = "tiebreak" -> TiebreakScore_isFinal(s, super)
    [] lv = "set"      -> SetScore_isFinal(s, f, finalSet)
    [] lv = "match"    -> MatchScore_isFinal(s, f)

\* the _incrementPaths of the level's path class
IncrementPaths(lv, ps, f, super, finalSet) ==
  CASE lv = "game"     -> GamePath_incrementPaths(ps, f)
    [] lv = "tiebreak" -> TiebreakPath_incrementPaths(ps, super, f.capPoints)
    [] lv = "set"      -> SetPath_incrementPaths(ps, f, finalSet)
    [] lv = "match"    -> MatchPath_incrementPaths(ps, f)

Construct ==
  /\ pc = "new"
  /\ LET c == ScoreInit(level, raw[1], raw[2], fmt, isSuper, isFinalSet)
     IN /\ pc' = IF c.ok THEN "built" ELSE "rejected"
        /\ score' = c.s
  /\ UNCHANGED <<level, fmt, isSuper, isFinalSet, raw, server, succ, paths, passes, probs, result, sub, cur, played, err, twin, arg, cache, heap>>

Successors ==
  /\ pc = "built"
  /\ succ' = ScoreNext(level, score, fmt, isSuper, isFinalSet)
  /\ pc' = "succ"
  /\ UNCHANGED <<level, fmt, isSuper, isFinalSet, raw, server, score, paths, passes, probs, result, sub, cur, played, err, twin, arg, cache, heap>>

\* generateAllPaths: build the seed path and enter _extendPaths
GenerateAllPaths ==
  /\ pc = "built"
  /\ paths' = <<(CASE level = "game"     -> GamePath_init(score)
                   [] level = "tiebreak" -> TiebreakPath_init(score, server)
                   [] level = "set"      -> SetPath_init(score, server)
                   [] level = "match"    -> MatchPath_init(score))>>
  /\ passes' = 0
  /\ pc' = "extend"
  /\ UNCHANGED <<level, fmt, isSuper, isFinalSet, raw, server, score, succ, probs, result, sub, cur, played, err, twin, arg, cache, heap>>

\* one frame of the recursive _extendPaths; a frame past MaxPasses is the
\* interpreter giving up (recursion limit / memory)
ExtendPaths ==
  /\ pc = "extend"
  /\ IF passes >= MaxPasses
     THEN /\ pc' = "exhausted"
          /\ UNCHANGED <<paths, passes>>
     ELSE LET pathsIncremented == IncrementPaths(level, paths, fmt, isSuper, isFinalSet)
              doneExtending    == Len(pathsIncremented.paths) = Len(paths)
          IN /\ passes' = passes + 1
             /\ pc' = IF pathsIncremented.raised THEN "raised"
                      ELSE IF doneExtending THEN "done" ELSE "extend"
             /\ paths' = IF pathsIncremented.raised \/ doneExtending THEN paths
                         ELSE pathsIncremented.paths
  /\ UNCHANGED <<level, fmt, isSuper, isFinalSet, raw, server, score, succ, probs, result, sub, cur, played, err, twin, arg, cache, heap>>

PathProbabilities(lv, ps, srv, p1, p2, pset) ==
  [i \in 1..Len(ps) |->
     CASE lv = "game"     -> Game_pathProbability(ps[i], srv, IF srv = 1 THEN p1 ELSE p2)
       [] lv = "tiebreak" -> Tiebreak_pathProbability(ps[i], p1, p2)
       [] lv = "set"      -> Set_pathProbability(ps[i], p1, p2)
       [] lv = "match"    -> Match_pathProbability(ps[i], pset)]

\* the caller evaluates the returned paths: pathProbability of each, and the
\* level's win-probability aggregator (game and tiebreak)
Evaluate ==
  /\ pc = "done"
  /\ \E p1 \in Probs, p2 \in Probs, pset \in Probs :
       /\ level \in {"set", "match"} => (p1 \in CoarseProbs /\ p2 \in CoarseProbs)
       /\ level = "game" => p2 = p1
       /\ level # "match" => pset = p1
       /\ probs' = <<p1, p2>>
       /\ LET pp  == PathProbabilities(level, paths, server, p1, p2, pset)
              sum == RSum(pp, 1, Len(pp))
          IN result' =
               CASE level = "game" ->
                      [sum |-> sum, win |-> probabilityServerWinsGame(paths, server, p1, fmt)]
                 [] level = "tiebreak" ->
                      [sum |-> sum, win |-> probabilityP1WinsTiebreak(paths, p1, p2, isSuper)]
                 [] level = "set" -> [sum |-> sum]
                 [] level = "match" -> [sum |-> sum, probP1WinsSet |-> pset]
  /\ pc' = "evaluated"
  /\ UNCHANGED <<level, fmt, isSuper, isFinalSet, raw, server, score, succ, paths, passes, sub, cur, played, err, twin, arg, cache, heap>>

Next == Construct \/ Successors \/ GenerateAllPaths \/ ExtendPaths \/ Evaluate

Spec == Init /\ [][Next]_vars

\* the interpreter keeps running the frames of _extendPaths it has entered
FairSpec == Spec /\ WF_vars(ExtendPaths)

----------------------------------------------------------------------------
(* Reachability: a score is reachable when play from 0-0, one unit at a    *)
(* time and never continuing a finished contest, arrives at it.            *)

Plain(f) == [f EXCEPT !.capPoints = FALSE]

ReachableGame(p, f) ==
  LET R[ab \in (0..(MaxPoints + 1)) \X (0..(MaxPoints + 1))] ==
        \/ ab = <<0, 0>>
        \/ /\ ab[1] > 0
           /\ R[<<ab[1] - 1, ab[2]>>]
           /\ ~GameScore_isFinal(<<ab[1] - 1, ab[2]>>, Plain(f))
        \/ /\ ab[2] > 0
           /\ R[<<ab[1], ab[2] - 1>>]
           /\ ~GameScore_isFinal(<<ab[1], ab[2] - 1>>, Plain(f))
  IN p \in DOMAIN R /\ R[p]

ReachableTiebreak(p, super) ==
  LET top == TiebreakScore_pointsToWin(super) + TBWindow + 1
      R[ab \in (0..top) \X (0..top)] ==
        \/ ab = <<0, 0>>
        \/ /\ ab[1] > 0
           /\ R[<<ab[1] - 1, ab[2]>>]
           /\ ~TiebreakScore_isFinal(<<ab[1] - 1, ab[2]>>, super)
        \/ /\ ab[2] > 0
           /\ R[<<ab[1], ab[2] - 1>>]
           /\ ~TiebreakScore_isFinal(<<ab[1], ab[2] - 1>>, super)
  IN p \in DOMAIN R /\ R[p]

\* a tied tiebreak set goes to the tiebreak, whose winner takes the set n+1 to n
ReachableSet(p, f, finalSet) ==
  LET top == f.setLength + 3
      R[ab \in (0..top) \X (0..top)] ==
        \/ ab = <<0, 0>>
        \/ /\ ab[1] > 0
           /\ R[<<ab[1] - 1, ab[2]>>]
           /\ ~SetScore_isFinal(<<ab[1] - 1, ab[2]>>, f, finalSet)
        \/ /\ ab[2] > 0
           /\ R[<<ab[1], ab[2] - 1>>]
           /\ ~SetScore_isFinal(<<ab[1], ab[2] - 1>>, f, finalSet)
  IN p \in DOMAIN R /\ R[p]

ReachableMatch(p, f) ==
  LET top == MatchScore_setsToWin(f) + 2
      R[ab \in (0..top) \X (0..top)] ==
        \/ ab = <<0, 0>>
        \/ /\ ab[1] > 0
           /\ R[<<ab[1] - 1, ab[2]>>]
           /\ ~MatchScore_isFinal(<<ab[1] - 1, ab[2]>>, f)
        \/ /\ ab[2] > 0
           /\ R[<<ab[1], ab[2] - 1>>]
           /\ ~MatchScore_isFinal(<<ab[1], ab[2] - 1>>, f)
  IN p \in DOMAIN R /\ R[p]

\* the arguments handed to the constructor are a reachable score
ValidInitialScore ==
  CASE level = "game"     -> ReachableGame(raw, fmt)
    [] level = "tiebreak" -> ReachableTiebreak(raw, isSuper)
    [] level = "set"      -> ReachableSet(raw, fmt, isFinalSet)
    [] level = "match"    -> ReachableMatch(raw, fmt)

\* every way play can go from s until the game is over or at the deuce boundary
RECURSIVE GameProgressions(_, _)
GameProgressions(s, f) ==
  IF GameScore_isFinal(s, f) \/ (GameScore_isDeuce(s) /\ ~f.noAdRule) THEN {<<s>>}
  ELSE {<<s>> \o q : q \in GameProgressions(GameScore_recordPoint(s, 1, f), f)
                           \cup GameProgressions(GameScore_recordPoint(s, 2, f), f)}

\* every way play can go from s until the tiebreak is over or tied near the end
RECURSIVE TiebreakProgressions(_, _, _)
TiebreakProgressions(s, super, normalize) ==
  IF TiebreakScore_isFinal(s, super) \/ TiebreakScore_isDeuce(s, super) THEN {<<s>>}
  ELSE {<<s>> \o q :
          q \in TiebreakProgressions(TiebreakScore_recordPoint(s, 1, super, normalize), super, normalize)
                \cup TiebreakProgressions(TiebreakScore_recordPoint(s, 2, super, normalize), super, normalize)}

Progressions ==
  IF level = "game" THEN GameProgressions(score, fmt)
  ELSE TiebreakProgressions(score, isSuper, fmt.capPoints)

PathSet == {ScoresOf(paths[i]) : i \in 1..Len(paths)}

\* C1: for a game or a tiebreak started from a valid score, generateAllPaths
\* returns every distinct progression to a final score or to the boundary,
\* none missing and none twice (and it does return).
C1_AllPathsExactlyOnce ==
  (level \in {"game", "tiebreak"} /\ ValidInitialScore) =>
     /\ pc \notin {"rejected", "raised", "exhausted"}
     /\ pc \in {"done", "evaluated"} =>
          /\ PathSet = Progressions
          /\ Len(paths) = Cardinality(PathSet)

C1_Witness ==
  /\ pc = "done" /\ level = "tiebreak" /\ ValidInitialScore
  /\ Len(paths) > 8
  /\ \E i \in 1..Len(paths) : TiebreakScore_isDeuce(Last(paths[i]).score, isSuper)
  /\ \E i \in 1..Len(paths) : TiebreakScore_isFinal(Last(paths[i]).score, isSuper)

\* C2: for a valid initial score at any level and any serve probabilities,
\* the probabilities of the generated paths sum to exactly 1.
C2_PathProbabilitiesSumToOne ==
  (pc = "evaluated" /\ ValidInitialScore) => result.sum = ROne

\* GameScore(4, 3) under the default (capping) format, Player2 serving, p = 1/3
C2_Counterexample ==
  /\ pc = "evaluated" /\ level = "game" /\ ValidInitialScore
  /\ raw = <<4, 3>> /\ fmt.capPoints /\ ~fmt.noAdRule /\ server = 2
  /\ probs[1] = <<1, 3>>
  /\ result.sum = <<4, 3>>

StepAddsOnePoint(a, b) == b = <<a[1] + 1, a[2]>> \/ b = <<a[1], a[2] + 1>>

\* C3: in every generated game or tiebreak path each score is its predecessor
\* plus one point for exactly one player (no capping inside a path).
C3_EachStepAddsOnePoint ==
  (level \in {"game", "tiebreak"} /\ pc \in {"extend", "done", "evaluated"}) =>
     \A i \in 1..Len(paths) : \A k \in 2..Len(paths[i]) :
        StepAddsOnePoint(paths[i][k - 1].score, paths[i][k].score)

\* GameScore(4, 3) under the default format: the path 4-3 -> 3-3
C3_Counterexample ==
  /\ pc = "done" /\ level = "game" /\ ValidInitialScore
  /\ raw = <<4, 3>> /\ fmt.capPoints /\ ~fmt.noAdRule
  /\ \E i \in 1..Len(paths) : ScoresOf(paths[i]) = <<<<4, 3>>, <<3, 3>>>>

\* the player serving the point of step k-1 -> k, as pathProbability takes it
ServerOfStep(path, k) == IF level = "game" THEN server ELSE path[k - 1].srv

\* whether pathProbability multiplies step k-1 -> k by the server's own probability
UsesServerProbability(path, k) ==
  IF level = "game" THEN Game_serverWonPoint(path, k, server)
  ELSE (path[k - 1].srv = 1) <=> Tiebreak_P1wonPoint(path, k)

\* C4: at every step of every generated game or tiebreak path, pathProbability
\* uses the server's point-win probability exactly when the server won the
\* point of that step (and one minus it otherwise).
C4_ServerFactorIffServerWon ==
  (level \in {"game", "tiebreak"} /\ pc = "evaluated" /\ ValidInitialScore) =>
     \A i \in 1..Len(paths) : \A k \in 2..Len(paths[i]) :
        UsesServerProbability(paths[i], k) <=> (paths[i][k].won = ServerOfStep(paths[i], k))

\* GameScore(3, 4) under the default format, Player1 serving: the server wins
\* the point (3-4 -> 3-3) and the step is multiplied by 1 - p
C4_Counterexample ==
  /\ pc = "evaluated" /\ level = "game" /\ ValidInitialScore
  /\ raw = <<3, 4>> /\ fmt.capPoints /\ ~fmt.noAdRule /\ server = 1
  /\ \E i \in 1..Len(paths) :
       /\ ScoresOf(paths[i]) = <<<<3, 4>>, <<3, 3>>>>
       /\ paths[i][2].won = 1
       /\ ~Game_serverWonPoint(paths[i], 2, server)

\* C5: from a valid initial score, at every level and under every format,
\* generateAllPaths comes back with a path set.
C5_GenerateAllPathsTerminates ==
  (pc = "extend" /\ ValidInitialScore) ~> (pc = "done")

\* C5, as a run of finitely many passes refutes it: from a valid initial score
\* generateAllPaths never uses up its frames of _extendPaths with the path
\* list still growing.
C5_GenerationNeverExhausts ==
  ValidInitialScore => pc # "exhausted"

\* an advantage set started one game past the tie (n+1 games to n): the pass
\* budget is used up with paths still neither final nor at the n-n boundary
C5_Counterexample ==
  /\ pc = "exhausted" /\ level = "set" /\ ValidInitialScore
  /\ ~SetScore_endsInTiebreak(fmt, isFinalSet)
  /\ raw = <<fmt.setLength + 1, fmt.setLength>>
  /\ \E i \in 1..Len(paths) :
       /\ ~SetScore_isFinal(Last(paths[i]).score, fmt, isFinalSet)
       /\ ~SetScore_isTied(Last(paths[i]).score, fmt)

Constructed == pc \notin {"new", "rejected"}

\* C6: a GameScore is constructible from a point pair exactly when the pair
\* is reachable from 0-0 under the format's rule for ending a game.
C6_GameConstructibleIffReachable ==
  (level = "game" /\ pc # "new") => (Constructed <=> ReachableGame(raw, fmt))

\* GameScore(4, 4) under the no-ad rule without capping: the game is over at
\* 4-3 / 3-4, yet the constructor accepts the pair
C6_Counterexample ==
  /\ level = "game" /\ pc = "built"
  /\ fmt.noAdRule /\ ~fmt.capPoints
  /\ raw = <<4, 4>> /\ score = <<4, 4>>
  /\ ~ReachableGame(raw, fmt)

\* C7: a SetScore is constructible from a games pair exactly when the pair is
\* reachable from 0-0 under the set's length and ending rule.
C7_SetConstructibleIffReachable ==
  (level = "set" /\ pc # "new") => (Constructed <=> ReachableSet(raw, fmt, isFinalSet))

\* SetScore(n+1, n+1) in a tiebreak-ending set: the set is over at n+1 to n,
\* yet the constructor accepts the pair
C7_Counterexample ==
  /\ level = "set" /\ pc = "built"
  /\ SetScore_endsInTiebreak(fmt, isFinalSet)
  /\ raw = <<fmt.setLength + 1, fmt.setLength + 1>>
  /\ ~ReachableSet(raw, fmt, isFinalSet)

\* C8: a MatchScore is constructible from a sets pair exactly when the pair
\* is reachable from 0-0 in a best-of-N match that stops at N \div 2 + 1 sets.
C8_MatchConstructibleIffReachable ==
  (level = "match" /\ pc # "new") => (Constructed <=> ReachableMatch(raw, fmt))

\* MatchScore(2, 2) in a best-of-3 match: both players hold the winning count
C8_Counterexample ==
  /\ level = "match" /\ pc = "built"
  /\ fmt.bestOfSets = 3 /\ raw = <<2, 2>>
  /\ MatchScore_isFinal(score, fmt)
  /\ ~ReachableMatch(raw, fmt)

\* C9: for a constructed score with nothing in progress below it, the
\* successor operation returns None when the score is final, and otherwise,
\* without raising, the score with one more unit for Player1 followed by the
\* score with one more unit for Player2.
C9_TwoSuccessorsOrNone ==
  pc = "succ" =>
    IF ScoreIsFinal(level, score, fmt, isSuper, isFinalSet) THEN succ.none
    ELSE /\ ~succ.none
         /\ ~succ.raised
         /\ succ.s1 = <<score[1] + 1, score[2]>>
         /\ succ.s2 = <<score[1], score[2] + 1>>

\* SetScore(n+1, n+1) in a tiebreak-ending set is constructed and not final;
\* nextGameScores raises when it builds n+2 to n+1
C9_Counterexample ==
  /\ pc = "succ" /\ level = "set"
  /\ SetScore_endsInTiebreak(fmt, isFinalSet)
  /\ score = <<fmt.setLength + 1, fmt.setLength + 1>>
  /\ ~SetScore_isFinal(score, fmt, isFinalSet)
  /\ succ.raised

----------------------------------------------------------------------------
(* recordPoint.  A call returns the exception class it ended with ("none"  *)
(* when it returned) and the object as the call left it.                   *)

GameScore_tryRecordPoint(s, pointWinner, f) ==
  IF pointWinner \notin Players THEN [err |-> "ValueError", s |-> s]
  ELSE IF GameScore_isFinal(s, f) THEN [err |-> "ValueError", s |-> s]
  ELSE [err |-> "none", s |-> GameScore_recordPoint(s, pointWinner, f)]

TiebreakScore_tryRecordPoint(s, pointWinner, super, normalize) ==
  IF pointWinner \notin Players THEN [err |-> "ValueError", s |-> s]
  ELSE IF TiebreakScore_isFinal(s, super) THEN [err |-> "ValueError", s |-> s]
  ELSE [err |-> "none", s |-> TiebreakScore_recordPoint(s, pointWinner, super, normalize)]

\* TiebreakerScore (the other copy of the tiebreak score class): its
\* constructor, isFinal and _normalize_score read as TiebreakScore's,
\* its recordPoint does not look at isFinal
TiebreakerScore_recordPoint(s, pointWinner, super, normalize) ==
  LET t == <<s[1] + (IF pointWinner = 1 THEN 1 ELSE 0), s[2] + (IF pointWinner = 2 THEN 1 ELSE 0)>>
  IN IF pointWinner \notin Players THEN [err |-> "ValueError", s |-> s]
     ELSE [err |-> "none",
           s   |-> IF normalize THEN TiebreakScore_normalize_score(t, super) ELSE t]

\* SetScore.__init__ with its optional gameScore / tiebreakScore arguments
\* (score objects already constructed under the same format)
SetScore_new(gamesP1, gamesP2, finalSet, f, hasGame, gameScore, hasTb, tiebreakScore, tbSuper) ==
  LET g      == <<gamesP1, gamesP2>>
      endsTB == SetScore_endsInTiebreak(f, finalSet)
      ending == IF finalSet THEN f.finalSetEnding ELSE f.setEnding
      isGame == SetScore_nextPointIsGame(g, f, finalSet)
      isTb   == SetScore_nextPointIsTiebreak(g, f, finalSet)
  IN IF hasGame /\ GameScore_isFinal(gameScore, f) THEN [ok |-> FALSE, o |-> BlankSetObj]
     ELSE IF hasTb /\ TiebreakScore_isFinal(tiebreakScore, tbSuper) THEN [ok |-> FALSE, o |-> BlankSetObj]
     ELSE IF ~endsTB /\ hasTb THEN [ok |-> FALSE, o |-> BlankSetObj]
     ELSE IF ~SetScore_isValidScore(gamesP1, gamesP2, hasGame, hasTb, f.setLength, endsTB)
          THEN [ok |-> FALSE, o |-> BlankSetObj]
     ELSE [ok |-> TRUE,
           o  |-> [games    |-> g,
                   hasGame  |-> isGame,
                   game     |-> IF isGame /\ hasGame THEN gameScore ELSE <<0, 0>>,
                   hasTb    |-> isTb,
                   tb       |-> IF isTb /\ hasTb THEN tiebreakScore ELSE <<0, 0>>,
                   super    |-> IF isTb THEN (IF hasTb THEN tbSuper ELSE ending = SUPERTIEBREAK)
                                ELSE FALSE,
                   finalSet |-> finalSet]]

\* variant of _recordGame that opens a new game whenever the set goes on
SetScore_recordGame_m(o, gameWinner, f) ==
  LET g      == <<o.games[1] + (IF gameWinner = 1 THEN 1 ELSE 0),
                  o.games[2] + (IF gameWinner = 2 THEN 1 ELSE 0)>>
      ending == IF o.finalSet THEN f.finalSetEnding ELSE f.setEnding
      isTb   == SetScore_nextPointIsTiebreak(g, f, o.finalSet)
  IN [o EXCEPT !.games   = g,
               !.hasGame = ~SetScore_isFinal(g, f, o.finalSet),
               !.game    = <<0, 0>>,
               !.hasTb   = isTb,
               !.tb      = <<0, 0>>,
               !.super   = isTb /\ ending = SUPERTIEBREAK]

SetScore_recordGame(o, gameWinner, f) ==
  LET g      == <<o.games[1] + (IF gameWinner = 1 THEN 1 ELSE 0),
                  o.games[2] + (IF gameWinner = 2 THEN 1 ELSE 0)>>
      ending == IF o.finalSet THEN f.finalSetEnding ELSE f.setEnding
      isTb   == SetScore_nextPointIsTiebreak(g, f, o.finalSet)
  IN [o EXCEPT !.games   = g,
               !.hasGame = SetScore_nextPointIsGame(g, f, o.finalSet),
               !.game    = <<0, 0>>,
               !.hasTb   = isTb,
               !.tb      = <<0, 0>>,
               !.super   = isTb /\ ending = SUPERTIEBREAK]

SetScore_recordTiebreak(o, tiebreakWinner) ==
  [o EXCEPT !.games   = <<o.games[1] + (IF tiebreakWinner = 1 THEN 1 ELSE 0),
                          o.games[2] + (IF tiebreakWinner = 2 THEN 1 ELSE 0)>>,
            !.hasGame = FALSE, !.game = <<0, 0>>,
            !.hasTb   = FALSE, !.tb   = <<0, 0>>, !.super = FALSE]

SetScore_recordPoint(o, pointWinner, f) ==
  IF pointWinner \notin Players THEN [err |-> "ValueError", o |-> o]
  ELSE IF SetScore_isFinal(o.games, f, o.finalSet) THEN [err |-> "ValueError", o |-> o]
  ELSE IF o.hasGame /\ o.hasTb THEN [err |-> "RuntimeError", o |-> o]
  ELSE IF o.hasGame
       THEN LET r == GameScore_tryRecordPoint(o.game, pointWinner, f)
            IN IF r.err # "none" THEN [err |-> r.err, o |-> o]
               ELSE IF GameScore_isFinal(r.s, f)
                    THEN [err |-> "none", o |-> SetScore_recordGame(o, GameScore_winner(r.s, f), f)]
               ELSE [err |-> "none", o |-> [o EXCEPT !.game = r.s]]
  ELSE IF ~o.hasTb THEN [err |-> "AttributeError", o |-> o]
  ELSE LET r == TiebreakScore_tryRecordPoint(o.tb, pointWinner, o.super, f.capPoints)
       IN IF r.err # "none" THEN [err |-> r.err, o |-> o]
          ELSE IF TiebreakScore_isFinal(r.s, o.super)
               THEN [err |-> "none",
                     o   |-> SetScore_recordTiebreak(o, TiebreakScore_winner(r.s, o.super))]
          ELSE [err |-> "none", o |-> [o EXCEPT !.tb = r.s]]

\* MatchScore.__init__ with its optional setScore argument
MatchScore_new(setsP1, setsP2, f, hasSet, setScore) ==
  LET s     == <<setsP1, setsP2>>
      blank == SetScore_new(0, 0, MatchScore_isFinalSet(s, f), f,
                            FALSE, <<0, 0>>, FALSE, <<0, 0>>, FALSE).o
  IN IF hasSet /\ SetScore_isFinal(setScore.games, f, setScore.finalSet)
     THEN [ok |-> FALSE, o |-> NoObj]
     ELSE IF ~MatchScore_isValidScore(setsP1, setsP2, hasSet, f) THEN [ok |-> FALSE, o |-> NoObj]
     ELSE [ok |-> TRUE,
           o  |-> [NoObj EXCEPT
                     !.sets   = s,
                     !.hasSet = ~MatchScore_isFinal(s, f),
                     !.set    = IF MatchScore_isFinal(s, f) THEN BlankSetObj
                                ELSE IF hasSet THEN setScore ELSE blank]]

MatchScore_recordPoint(m, pointWinner, f) ==
  IF pointWinner \notin Players THEN [err |-> "ValueError", o |-> m]
  ELSE IF MatchScore_isFinal(m.sets, f) THEN [err |-> "ValueError", o |-> m]
  ELSE IF ~m.hasSet THEN [err |-> "AttributeError", o |-> m]
  ELSE LET r == SetScore_recordPoint(m.set, pointWinner, f)
       IN IF r.err # "none" THEN [err |-> r.err, o |-> m]
          ELSE IF SetScore_isFinal(r.o.games, f, r.o.finalSet)
               THEN LET setWinner == SetScore_winner(r.o.games, f, r.o.finalSet)
                        s == <<m.sets[1] + (IF setWinner = 1 THEN 1 ELSE 0),
                               m.sets[2] + (IF setWinner = 2 THEN 1 ELSE 0)>>
                    IN [err |-> "none",
                        o   |-> [m EXCEPT
                                   !.sets   = s,
                                   !.hasSet = ~MatchScore_isFinal(s, f),
                                   !.set    = IF MatchScore_isFinal(s, f) THEN BlankSetObj
                                              ELSE SetScore_new(0, 0, MatchScore_isFinalSet(s, f), f,
                                                                FALSE, <<0, 0>>, FALSE, <<0, 0>>,
                                                                FALSE).o]]
          ELSE [err |-> "none", o |-> [m EXCEPT !.set = r.o]]

----------------------------------------------------------------------------
(* Game, Tiebreak, Set, Match: the contests that keep histories.  A contest  *)
(* shares its score object with the contest above it (_shareInitScore), so   *)
(* the score is written in both records whenever it changes.                 *)

BlankGame == [score |-> <<0, 0>>, server |-> 1, pointHistory |-> <<>>]
BlankTiebreak == [score |-> <<0, 0>>, super |-> FALSE, servesNext |-> 1, servedFirst |-> 1,
                  pointHistory |-> <<>>]
BlankSet == [set |-> BlankSetObj, currentGame |-> FALSE, game |-> BlankGame,
             tiebreaker |-> FALSE, tb |-> BlankTiebreak, gameHistory |-> <<>>]
BlankMatch == [score |-> [sets |-> <<0, 0>>, hasSet |-> FALSE, set |-> BlankSetObj],
               currentSet |-> FALSE, setObj |-> BlankSet, setHistory |-> <<>>]

\* Game.__init__ on a GameScore object
Game_init(playerServing, initScore) ==
  [score |-> initScore, server |-> playerServing, pointHistory |-> <<>>]

\* Game.recordPoint without its early return on a game that is over
Game_recordPoint_m(g, pointWinner, f) ==
  IF pointWinner \notin Players THEN [err |-> "ValueError", o |-> g]
  ELSE LET r == GameScore_tryRecordPoint(g.score, pointWinner, f)
       IN IF r.err # "none" THEN [err |-> r.err, o |-> g]
          ELSE [err |-> "none",
                o   |-> [g EXCEPT !.score = r.s, !.pointHistory = Append(@, pointWinner)]]

\* Game.recordPoint
Game_recordPoint(g, pointWinner, f) ==
  IF pointWinner \notin Players THEN [err |-> "ValueError", o |-> g]
  ELSE IF GameScore_isFinal(g.score, f) THEN [err |-> "none", o |-> g]
  ELSE LET r == GameScore_tryRecordPoint(g.score, pointWinner, f)
       IN IF r.err # "none" THEN [err |-> r.err, o |-> g]
          ELSE [err |-> "none",
                o   |-> [g EXCEPT !.score = r.s, !.pointHistory = Append(@, pointWinner)]]

\* Tiebreak.__init__ on a TiebreakScore object
Tiebreak_init(playerToServe, super, initScore) ==
  [score |-> initScore, super |-> super, servesNext |-> playerToServe,
   servedFirst |-> playerToServe, pointHistory |-> <<>>]

\* Tiebreak.recordPoint changing the serve after the even-numbered points
Tiebreak_recordPoint_m(t, pointWinner, f) ==
  IF pointWinner \notin Players THEN [err |-> "ValueError", o |-> t]
  ELSE IF TiebreakScore_isFinal(t.score, t.super) THEN [err |-> "none", o |-> t]
  ELSE CHOOSE res \in
         {LET totalPoints == r.s[1] + r.s[2]
          IN IF r.err # "none" THEN [err |-> r.err, o |-> t]
             ELSE [err |-> "none",
                   o   |-> [t EXCEPT
                              !.score        = r.s,
                              !.pointHistory = Append(@, pointWinner),
                              !.servesNext   =
                                 IF totalPoints = 1 THEN 3 - t.servedFirst
                                 ELSE IF totalPoints > 1 /\ totalPoints % 2 = 0 THEN 3 - @
                                 ELSE @]]
            : r \in {TiebreakScore_tryRecordPoint(t.score, pointWinner, t.super, f.capPoints)}}
         : TRUE

\* Tiebreak.recordPoint
Tiebreak_recordPoint(t, pointWinner, f) ==
  IF pointWinner \notin Players THEN [err |-> "ValueError", o |-> t]
  ELSE IF TiebreakScore_isFinal(t.score, t.super) THEN [err |-> "none", o |-> t]
  ELSE CHOOSE res \in
         {LET totalPoints == r.s[1] + r.s[2]
          IN IF r.err # "none" THEN [err |-> r.err, o |-> t]
             ELSE [err |-> "none",
                   o   |-> [t EXCEPT
                              !.score        = r.s,
                              !.pointHistory = Append(@, pointWinner),
                              !.servesNext   =
                                 IF totalPoints = 1 THEN 3 - t.servedFirst
                                 ELSE IF totalPoints > 1 /\ (totalPoints - 1) % 2 = 0 THEN 3 - @
                                 ELSE @]]
            : r \in {TiebreakScore_tryRecordPoint(t.score, pointWinner, t.super, f.capPoints)}}
         : TRUE

\* Set.__init__ around an initial SetScore: the Game / Tiebreak sub-objects
\* share the SetScore's currGameScore / tiebreakScore objects
Set_init(playerToServe, isFinalSetArg, initScore, f) ==
  IF initScore.finalSet # isFinalSetArg THEN [ok |-> FALSE, o |-> BlankSet]
  ELSE LET isGame == SetScore_nextPointIsGame(initScore.games, f, initScore.finalSet)
           isTb   == SetScore_nextPointIsTiebreak(initScore.games, f, initScore.finalSet)
       IN [ok |-> TRUE,
           o  |-> [set         |-> initScore,
                   currentGame |-> isGame,
                   game        |-> IF isGame THEN Game_init(playerToServe, initScore.game)
                                   ELSE BlankGame,
                   tiebreaker  |-> isTb,
                   tb          |-> IF isTb
                                   THEN Tiebreak_init(playerToServe, initScore.super, initScore.tb)
                                   ELSE BlankTiebreak,
                   gameHistory |-> <<>>]]

\* Set._onGameOver handing the next game to the player who just served
Set_onGameOver_m(o, f) ==
  CHOOSE res \in
    {LET servingNext == o.game.server
         archived == Append(o.gameHistory,
                            [isGame |-> TRUE, game |-> o.game, tb |-> BlankTiebreak])
     IN IF SetScore_isFinal(sc.games, f, sc.finalSet)
        THEN [o EXCEPT !.set = sc, !.gameHistory = archived,
                       !.currentGame = FALSE, !.game = BlankGame,
                       !.tiebreaker = FALSE, !.tb = BlankTiebreak]
        ELSE IF SetScore_nextPointIsTiebreak(sc.games, f, sc.finalSet)
             THEN [o EXCEPT !.set = sc, !.gameHistory = archived,
                            !.currentGame = FALSE, !.game = BlankGame,
                            !.tiebreaker = TRUE,
                            !.tb = Tiebreak_init(servingNext, sc.super, sc.tb)]
        ELSE [o EXCEPT !.set = sc, !.gameHistory = archived,
                       !.currentGame = TRUE, !.game = Game_init(servingNext, sc.game),
                       !.tiebreaker = FALSE, !.tb = BlankTiebreak]
       : sc \in {SetScore_recordGame(o.set, GameScore_winner(o.game.score, f), f)}}
    : TRUE

\* Set._onGameOver after the shared GameScore became final
Set_onGameOver(o, f) ==
  CHOOSE res \in
    {LET servingNext == 3 - o.game.server
         archived == Append(o.gameHistory,
                            [isGame |-> TRUE, game |-> o.game, tb |-> BlankTiebreak])
     IN IF SetScore_isFinal(sc.games, f, sc.finalSet)
        THEN [o EXCEPT !.set = sc, !.gameHistory = archived,
                       !.currentGame = FALSE, !.game = BlankGame,
                       !.tiebreaker = FALSE, !.tb = BlankTiebreak]
        ELSE IF SetScore_nextPointIsTiebreak(sc.games, f, sc.finalSet)
             THEN [o EXCEPT !.set = sc, !.gameHistory = archived,
                            !.currentGame = FALSE, !.game = BlankGame,
                            !.tiebreaker = TRUE,
                            !.tb = Tiebreak_init(servingNext, sc.super, sc.tb)]
        ELSE [o EXCEPT !.set = sc, !.gameHistory = archived,
                       !.currentGame = TRUE, !.game = Game_init(servingNext, sc.game),
                       !.tiebreaker = FALSE, !.tb = BlankTiebreak]
       : sc \in {SetScore_recordGame(o.set, GameScore_winner(o.game.score, f), f)}}
    : TRUE

\* Set._onTiebreakOver after the shared TiebreakScore became final
Set_onTiebreakOver(o) ==
  [o EXCEPT !.set = SetScore_recordTiebreak(o.set,
                                              TiebreakScore_winner(o.tb.score, o.tb.super)),
            !.gameHistory = Append(@, [isGame |-> FALSE, game |-> BlankGame, tb |-> o.tb]),
            !.tiebreaker = FALSE, !.tb = BlankTiebreak]

\* Set.recordPoint with a Game that records on a copy of the set's GameScore
\* (no _shareInitScore)
Set_recordPoint_m(o, pointWinner, f) ==
  IF pointWinner \notin Players THEN [err |-> "ValueError", o |-> o]
  ELSE IF SetScore_isFinal(o.set.games, f, o.set.finalSet) THEN [err |-> "none", o |-> o]
  ELSE IF o.currentGame = o.tiebreaker THEN [err |-> "RuntimeError", o |-> o]
  ELSE IF o.currentGame
       THEN CHOOSE res \in
              {LET o1 == [o EXCEPT !.game = r.o]
               IN IF r.err # "none" THEN [err |-> r.err, o |-> o]
                  ELSE IF GameScore_isFinal(r.o.score, f)
                       THEN [err |-> "none", o |-> Set_onGameOver(o1, f)]
                  ELSE [err |-> "none", o |-> o1]
                 : r \in {Game_recordPoint(o.game, pointWinner, f)}}
              : TRUE
  ELSE CHOOSE res \in
         {LET o1 == [o EXCEPT !.tb = r.o, !.set.tb = r.o.score]
          IN IF r.err # "none" THEN [err |-> r.err, o |-> o]
             ELSE IF TiebreakScore_isFinal(r.o.score, r.o.super)
                  THEN [err |-> "none", o |-> Set_onTiebreakOver(o1)]
             ELSE [err |-> "none", o |-> o1]
            : r \in {Tiebreak_recordPoint(o.tb, pointWinner, f)}}
         : TRUE

\* Set.recordPoint
Set_recordPoint(o, pointWinner, f) ==
  IF pointWinner \notin Players THEN [err |-> "ValueError", o |-> o]
  ELSE IF SetScore_isFinal(o.set.games, f, o.set.finalSet) THEN [err |-> "none", o |-> o]
  ELSE IF o.currentGame = o.tiebreaker THEN [err |-> "RuntimeError", o |-> o]
  ELSE IF o.currentGame
       THEN CHOOSE res \in
              {LET o1 == [o EXCEPT !.game = r.o, !.set.game = r.o.score]
               IN IF r.err # "none" THEN [err |-> r.err, o |-> o]
                  ELSE IF GameScore_isFinal(r.o.score, f)
                       THEN [err |-> "none", o |-> Set_onGameOver(o1, f)]
                  ELSE [err |-> "none", o |-> o1]
                 : r \in {Game_recordPoint(o.game, pointWinner, f)}}
              : TRUE
  ELSE CHOOSE res \in
         {LET o1 == [o EXCEPT !.tb = r.o, !.set.tb = r.o.score]
          IN IF r.err # "none" THEN [err |-> r.err, o |-> o]
             ELSE IF TiebreakScore_isFinal(r.o.score, r.o.super)
                  THEN [err |-> "none", o |-> Set_onTiebreakOver(o1)]
             ELSE [err |-> "none", o |-> o1]
            : r \in {Tiebreak_recordPoint(o.tb, pointWinner, f)}}
         : TRUE

\* Set.servesNext; 0 stands for the IndexError of gameHistory[-1] on an empty history
Set_servesNext(o, f) ==
  IF SetScore_nextPointIsGame(o.set.games, f, o.set.finalSet) THEN o.game.server
  ELSE IF SetScore_nextPointIsTiebreak(o.set.games, f, o.set.finalSet) THEN o.tb.servesNext
  ELSE IF o.gameHistory = <<>> THEN 0
  ELSE LET item == Last(o.gameHistory)
       IN IF item.isGame THEN 3 - item.game.server ELSE 3 - item.tb.servedFirst

\* Set.pointHistory
Set_pointHistory(o) ==
  LET points == [i \in 1..Len(o.gameHistory) |->
                   IF o.gameHistory[i].isGame THEN o.gameHistory[i].game.pointHistory
                   ELSE o.gameHistory[i].tb.pointHistory]
  IN Flatten(points, 1, Len(points))
       \o (IF o.currentGame THEN o.game.pointHistory ELSE <<>>)
       \o (IF o.tiebreaker THEN o.tb.pointHistory ELSE <<>>)

RECURSIVE SumOf(_, _, _)
SumOf(q, i, n) == IF i > n THEN 0 ELSE q[i] + SumOf(q, i + 1, n)

\* Set.totalPoints: the scores of the archived games and tiebreak, plus the
\* score of the game or tiebreak in progress
Set_totalPoints(o) ==
  LET scores == [i \in 1..Len(o.gameHistory) |->
                   IF o.gameHistory[i].isGame THEN o.gameHistory[i].game.score
                   ELSE o.gameHistory[i].tb.score]
      total(k) == SumOf([i \in 1..Len(scores) |-> scores[i][k]], 1, Len(scores))
                    + (IF o.currentGame THEN o.game.score[k] ELSE 0)
                    + (IF o.tiebreaker THEN o.tb.score[k] ELSE 0)
  IN <<total(1), total(2)>>

\* MatchScore._recordSet, which Match.recordPoint calls
MatchScore_recordSet(ms, setWinner, f) ==
  LET s == <<ms.sets[1] + (IF setWinner = 1 THEN 1 ELSE 0),
             ms.sets[2] + (IF setWinner = 2 THEN 1 ELSE 0)>>
  IN [sets   |-> s,
      hasSet |-> ~MatchScore_isFinal(s, f),
      set    |-> IF MatchScore_isFinal(s, f) THEN BlankSetObj
                 ELSE SetScore_new(0, 0, MatchScore_isFinalSet(s, f), f,
                                   FALSE, <<0, 0>>, FALSE, <<0, 0>>, FALSE).o]

\* Match.__init__ around an initial MatchScore (its sets, hasSet, set fields)
Match_init(playerServing, initScore, f) ==
  IF MatchScore_isFinal(initScore.sets, f)
  THEN [ok |-> TRUE, o |-> [BlankMatch EXCEPT !.score = initScore]]
  ELSE LET c == Set_init(playerServing, MatchScore_isFinalSet(initScore.sets, f),
                         initScore.set, f)
       IN IF ~c.ok THEN [ok |-> FALSE, o |-> BlankMatch]
          ELSE [ok |-> TRUE,
                o  |-> [score |-> initScore, currentSet |-> TRUE, setObj |-> c.o,
                        setHistory |-> <<>>]]

\* Match.recordPoint keeping the finished set as currentSet when the match ends
Match_recordPoint_m(m, pointWinner, f) ==
  IF pointWinner \notin Players THEN [err |-> "ValueError", o |-> m]
  ELSE IF MatchScore_isFinal(m.score.sets, f) THEN [err |-> "none", o |-> m]
  ELSE CHOOSE res \in
         {LET m1 == [m EXCEPT !.setObj = r.o, !.score.set = r.o.set]
          IN IF r.err # "none" THEN [err |-> r.err, o |-> m]
             ELSE IF ~SetScore_isFinal(r.o.set.games, f, r.o.set.finalSet)
                  THEN [err |-> "none", o |-> m1]
             ELSE CHOOSE over \in
                    {LET servingNext == 3 - Set_servesNext(r.o, f)
                         c == Set_init(servingNext, MatchScore_isFinalSet(sc.sets, f),
                                       sc.set, f)
                     IN IF MatchScore_isFinal(sc.sets, f)
                        THEN [err |-> "none",
                              o   |-> [score |-> sc, currentSet |-> TRUE, setObj |-> r.o,
                                       setHistory |-> Append(m.setHistory, r.o)]]
                        ELSE IF ~c.ok THEN [err |-> "ValueError", o |-> m]
                        ELSE [err |-> "none",
                              o   |-> [score |-> sc, currentSet |-> TRUE, setObj |-> c.o,
                                       setHistory |-> Append(m.setHistory, r.o)]]
                       : sc \in {MatchScore_recordSet(m1.score,
                                   SetScore_winner(r.o.set.games, f, r.o.set.finalSet), f)}}
                    : TRUE
            : r \in {Set_recordPoint(m.setObj, pointWinner, f)}}
         : TRUE

\* Match.recordPoint
Match_recordPoint(m, pointWinner, f) ==
  IF pointWinner \notin Players THEN [err |-> "ValueError", o |-> m]
  ELSE IF MatchScore_isFinal(m.score.sets, f) THEN [err |-> "none", o |-> m]
  ELSE CHOOSE res \in
         {LET m1 == [m EXCEPT !.setObj = r.o, !.score.set = r.o.set]
          IN IF r.err # "none" THEN [err |-> r.err, o |-> m]
             ELSE IF ~SetScore_isFinal(r.o.set.games, f, r.o.set.finalSet)
                  THEN [err |-> "none", o |-> m1]
             ELSE CHOOSE over \in
                    {LET servingNext == 3 - Set_servesNext(r.o, f)
                         c == Set_init(servingNext, MatchScore_isFinalSet(sc.sets, f),
                                       sc.set, f)
                     IN IF MatchScore_isFinal(sc.sets, f)
                        THEN [err |-> "none",
                              o   |-> [score |-> sc, currentSet |-> FALSE, setObj |-> BlankSet,
                                       setHistory |-> Append(m.setHistory, r.o)]]
                        ELSE IF ~c.ok THEN [err |-> "ValueError", o |-> m]
                        ELSE [err |-> "none",
                              o   |-> [score |-> sc, currentSet |-> TRUE, setObj |-> c.o,
                                       setHistory |-> Append(m.setHistory, r.o)]]
                       : sc \in {MatchScore_recordSet(m1.score,
                                   SetScore_winner(r.o.set.games, f, r.o.set.finalSet), f)}}
                    : TRUE
            : r \in {Set_recordPoint(m.setObj, pointWinner, f)}}
         : TRUE

\* Match.servesNext; 0 stands for an IndexError
Match_servesNext(m, f) ==
  IF MatchScore_isFinal(m.score.sets, f)
  THEN (IF m.setHistory = <<>> THEN 0
        ELSE LET last == Set_servesNext(Last(m.setHistory), f)
             IN IF last = 0 THEN 0 ELSE 3 - last)
  ELSE Set_servesNext(m.setObj, f)

\* Match.pointHistory
Match_pointHistory(m) ==
  LET points == [i \in 1..Len(m.setHistory) |-> Set_pointHistory(m.setHistory[i])]
  IN Flatten(points, 1, Len(points))
       \o (IF m.currentSet THEN Set_pointHistory(m.setObj) ELSE <<>>)

\* Match.totalPoints
Match_totalPoints(m) ==
  LET points == [i \in 1..Len(m.setHistory) |-> Set_totalPoints(m.setHistory[i])]
      total(k) == SumOf([i \in 1..Len(points) |-> points[i][k]], 1, Len(points))
                    + (IF m.currentSet THEN Set_totalPoints(m.setObj)[k] ELSE 0)
  IN <<total(1), total(2)>>

----------------------------------------------------------------------------
(* Playing points: a caller constructs a score object, possibly handing the *)
(* constructor a score for the contest in progress below it, and then calls *)
(* recordPoint on it with one point winner after the other.                 *)

\* "Set" is the Set class, "set" the SetScore class
PlayLevels == {"game", "tiebreak", "tiebreaker", "set", "Set", "match"}

SetPlayFormats == {MatchFormat(3, n, e, fe, FALSE, TRUE) :
                     n \in 1..MaxSetLength, e \in SetEnding, fe \in SetEnding}

SubGamePoints     == (NUM_POINTS_WIN - 2)..NUM_POINTS_WIN
SubTiebreakPoints == (POINTS_TO_WIN_TIEBREAK - 2)..POINTS_TO_WIN_TIEBREAK

PlayInit ==
  /\ \/ /\ level = "game"
        /\ fmt \in GameFormats
        /\ isSuper = FALSE /\ isFinalSet = FALSE
        /\ raw \in (0..MaxPoints) \X (0..MaxPoints)
        /\ sub = NoSub
     \/ /\ level \in {"tiebreak", "tiebreaker"}
        /\ fmt \in TiebreakFormats
        /\ isSuper \in BOOLEAN /\ isFinalSet = FALSE
        /\ raw \in TiebreakArgs(isSuper) \X TiebreakArgs(isSuper)
        /\ sub = NoSub
     \/ /\ level \in {"set", "Set"}
        /\ fmt \in SetPlayFormats
        /\ isSuper = FALSE /\ isFinalSet \in BOOLEAN
        /\ raw \in (0..(fmt.setLength + 1)) \X (0..(fmt.setLength + 1))
        /\ sub \in {NoSub}
                   \cup {[kind |-> "game", pts |-> q] : q \in SubGamePoints \X SubGamePoints}
                   \cup {[kind |-> "tiebreak", pts |-> q] :
                           q \in SubTiebreakPoints \X SubTiebreakPoints}
     \/ /\ level = "match"
        /\ fmt \in {MatchFormat(b, n, TIEBREAK, TIEBREAK, FALSE, TRUE) :
                      b \in 1..MaxBestOf, n \in 1..MaxSetLength}
        /\ isSuper = FALSE
        /\ raw \in (0..MatchScore_setsToWin(fmt)) \X (0..MatchScore_setsToWin(fmt))
        /\ \/ sub = NoSub /\ isFinalSet = FALSE
           \/ /\ sub \in {[kind |-> "set", pts |-> q] :
                            q \in (0..(fmt.setLength + 1)) \X (0..(fmt.setLength + 1))}
              /\ isFinalSet \in BOOLEAN
  /\ server = 1
  /\ pc = "new"
  /\ score = <<0, 0>>
  /\ succ = NoSucc
  /\ paths = <<>>
  /\ passes = 0
  /\ probs = <<RZero, RZero>>
  /\ result = NoResult
  /\ cur = NoObj
  /\ played = 0
  /\ err = "none"
  /\ twin = <<0, 0>>
  /\ arg = <<>>
  /\ cache = <<>>
  /\ heap = NoHeap

\* the object NewScore builds from the arguments drawn by PlayInit
NewObject ==
  CASE level = "game" ->
         LET c == GameScore_init(raw[1], raw[2], fmt)
         IN [ok |-> c.ok, o |-> [NoObj EXCEPT !.set.hasGame = TRUE, !.set.game = c.s]]
    [] level \in {"tiebreak", "tiebreaker"} ->
         LET c == TiebreakScore_init(raw[1], raw[2], isSuper, fmt.capPoints)
         IN [ok |-> c.ok,
             o  |-> [NoObj EXCEPT !.set.hasTb = TRUE, !.set.tb = c.s, !.set.super = isSuper]]
    [] level = "set" ->
         LET g == GameScore_init(sub.pts[1], sub.pts[2], fmt)
             t == TiebreakScore_init(sub.pts[1], sub.pts[2], isSuper, fmt.capPoints)
             c == SetScore_new(raw[1], raw[2], isFinalSet, fmt,
                               sub.kind = "game", g.s, sub.kind = "tiebreak", t.s, isSuper)
         IN IF (sub.kind = "game" /\ ~g.ok) \/ (sub.kind = "tiebreak" /\ ~t.ok)
            THEN [ok |-> FALSE, o |-> NoObj]
            ELSE [ok |-> c.ok, o |-> [NoObj EXCEPT !.hasSet = c.ok, !.set = c.o]]
    [] level = "Set" ->
         LET g == GameScore_init(sub.pts[1], sub.pts[2], fmt)
             t == TiebreakScore_init(sub.pts[1], sub.pts[2], isSuper, fmt.capPoints)
             c == SetScore_new(raw[1], raw[2], isFinalSet, fmt,
                               sub.kind = "game", g.s, sub.kind = "tiebreak", t.s, isSuper)
         IN IF (sub.kind = "game" /\ ~g.ok) \/ (sub.kind = "tiebreak" /\ ~t.ok) \/ ~c.ok
            THEN [ok |-> FALSE, o |-> NoObj]
            ELSE Set_init(server, isFinalSet, c.o, fmt)
    [] level = "match" ->
         LET c == SetScore_new(sub.pts[1], sub.pts[2], isFinalSet, fmt,
                               FALSE, <<0, 0>>, FALSE, <<0, 0>>, FALSE)
         IN IF sub.kind = "set" /\ ~c.ok THEN [ok |-> FALSE, o |-> NoObj]
            ELSE MatchScore_new(raw[1], raw[2], fmt, sub.kind = "set", c.o)

NewScore ==
  /\ pc = "new"
  /\ pc' = IF NewObject.ok THEN "play" ELSE "rejected"
  /\ cur' = NewObject.o
  /\ twin' = IF level = "game" THEN GameScore_init(raw[1], raw[2], Plain(fmt)).s
             ELSE IF level \in {"tiebreak", "tiebreaker"}
                  THEN TiebreakScore_init(raw[1], raw[2], isSuper, FALSE).s
             ELSE twin
  /\ UNCHANGED <<level, fmt, isSuper, isFinalSet, raw, server, score, succ, paths, passes,
                 probs, result, sub, played, err, arg, cache, heap>>

\* recordPoint(pointWinner) on the object, whatever its state
RecordPointCall(pointWinner) ==
  CASE level = "game" ->
         LET r == GameScore_tryRecordPoint(cur.set.game, pointWinner, fmt)
         IN [err |-> r.err, o |-> [cur EXCEPT !.set.game = r.s]]
    [] level = "tiebreak" ->
         LET r == TiebreakScore_tryRecordPoint(cur.set.tb, pointWinner, isSuper, fmt.capPoints)
         IN [err |-> r.err, o |-> [cur EXCEPT !.set.tb = r.s]]
    [] level = "tiebreaker" ->
         LET r == TiebreakerScore_recordPoint(cur.set.tb, pointWinner, isSuper, fmt.capPoints)
         IN [err |-> r.err, o |-> [cur EXCEPT !.set.tb = r.s]]
    [] level = "set" ->
         LET r == SetScore_recordPoint(cur.set, pointWinner, fmt)
         IN [err |-> r.err, o |-> [cur EXCEPT !.set = r.o]]
    [] level = "Set" -> Set_recordPoint(cur, pointWinner, fmt)
    [] level = "match" -> MatchScore_recordPoint(cur, pointWinner, fmt)

\* the same point recorded on the uncapped twin of a game or tiebreak score
TwinRecordPoint(pointWinner) ==
  CASE level = "game" -> GameScore_tryRecordPoint(twin, pointWinner, Plain(fmt)).s
    [] level = "tiebreak" -> TiebreakScore_tryRecordPoint(twin, pointWinner, isSuper, FALSE).s
    [] level = "tiebreaker" -> TiebreakerScore_recordPoint(twin, pointWinner, isSuper, FALSE).s
    [] OTHER -> twin

RecordPoint ==
  /\ pc = "play"
  /\ played < MaxPlayed
  /\ \E pointWinner \in Players :
       /\ cur' = RecordPointCall(pointWinner).o
       /\ err' = RecordPointCall(pointWinner).err
       /\ twin' = TwinRecordPoint(pointWinner)
       /\ arg' = <<pointWinner>>
  /\ played' = played + 1
  /\ UNCHANGED <<level, fmt, isSuper, isFinalSet, raw, server, pc, score, succ, paths, passes,
                 probs, result, sub, cache, heap>>

PlayNext == NewScore \/ RecordPoint

PlaySpec == PlayInit /\ [][PlayNext]_vars

\* whether the object recordPoint is called on is final
CurIsFinal ==
  CASE level = "game" -> GameScore_isFinal(cur.set.game, fmt)
    [] level \in {"tiebreak", "tiebreaker"} -> TiebreakScore_isFinal(cur.set.tb, isSuper)
    [] level \in {"set", "Set"} -> SetScore_isFinal(cur.set.games, fmt, cur.set.finalSet)
    [] level = "match" -> MatchScore_isFinal(cur.sets, fmt)

\* C11: recordPoint on a score object that is already final raises and
\* leaves the object as it was (game, tiebreak in either copy, set, match).
C11_RecordPointOnFinalRaises ==
  [][(pc = "play" /\ level # "Set" /\ played' = played + 1 /\ CurIsFinal) =>
       (err' # "none" /\ cur' = cur)]_vars

\* TiebreakerScore(7, 5).recordPoint(1) returns and the score is 8-5
C11_Counterexample ==
  /\ level = "tiebreaker" /\ pc = "play" /\ ~isSuper
  /\ raw = <<7, 5>> /\ played = 1
  /\ err = "none"
  /\ cur.set.tb = <<8, 5>>

----------------------------------------------------------------------------
(* Properties of the returned path sets *)

Returned == pc \in {"done", "evaluated"}

\* the level's boundary, where enumeration stops although play goes on
AtBoundary(lv, s, f, super) ==
  CASE lv = "game"     -> GameScore_isDeuce(s)
    [] lv = "tiebreak" -> TiebreakScore_isDeuce(s, super)
    [] lv = "set"      -> SetScore_isTied(s, f)
    [] lv = "match"    -> FALSE

\* C12: every path generateAllPaths returns ends in a score that is final or
\* at the level's tie/deuce boundary, and none of its earlier scores is final.
C12_PathsEndFinalOrBoundary ==
  Returned =>
    \A i \in 1..Len(paths) :
       /\ \/ ScoreIsFinal(level, Last(paths[i]).score, fmt, isSuper, isFinalSet)
          \/ AtBoundary(level, Last(paths[i]).score, fmt, isSuper)
       /\ \A k \in 1..(Len(paths[i]) - 1) :
            ~ScoreIsFinal(level, paths[i][k].score, fmt, isSuper, isFinalSet)

C12_Witness ==
  /\ pc = "done" /\ level = "set" /\ Len(paths) > 2
  /\ \E i \in 1..Len(paths) : SetScore_isFinal(Last(paths[i]).score, fmt, isFinalSet)
  /\ \E i \in 1..Len(paths) :
       /\ SetScore_isTied(Last(paths[i]).score, fmt)
       /\ ~SetScore_isFinal(Last(paths[i]).score, fmt, isFinalSet)

\* whether the constructed initial score is one where enumeration stops at once
StopsAtStart ==
  \/ ScoreIsFinal(level, score, fmt, isSuper, isFinalSet)
  \/ level = "game" /\ GameScore_isDeuce(score) /\ ~fmt.noAdRule
  \/ level = "tiebreak" /\ TiebreakScore_isDeuce(score, isSuper)
  \/ level = "set" /\ SetScore_isTied(score, fmt)

\* C13: from an initial score that is final, at deuce under advantage scoring,
\* tied at pointsToWin-1 or beyond in a tiebreak, or tied at setLength-all in
\* a set, generateAllPaths returns the one path holding only that score.
C13_SingletonPathFromStop ==
  (StopsAtStart /\ pc \in {"extend", "done", "evaluated", "raised", "exhausted"}) =>
     /\ pc \notin {"raised", "exhausted"}
     /\ Len(paths) = 1
     /\ ScoresOf(paths[1]) = <<score>>

C13_Witness ==
  /\ pc = "done" /\ level = "tiebreak" /\ ~fmt.capPoints
  /\ TiebreakScore_isDeuce(score, isSuper) /\ score[1] > TiebreakScore_pointsToWin(isSuper)
  /\ Len(paths) = 1 /\ ScoresOf(paths[1]) = <<score>>

\* C14: from a blank game under advantage scoring generateAllPaths returns
\* exactly 50 paths.
C14_BlankGameFiftyPaths ==
  (level = "game" /\ raw = <<0, 0>> /\ ~fmt.noAdRule) =>
     /\ pc \notin {"rejected", "raised", "exhausted"}
     /\ Returned => Len(paths) = 50

C14_Witness ==
  /\ pc = "done" /\ level = "game" /\ raw = <<0, 0>> /\ ~fmt.noAdRule
  /\ Cardinality(PathSet) = 50

\* C16: from a blank match generateAllPaths returns exactly 6 paths in a
\* best-of-3 match and exactly 20 in a best-of-5 match, all ending final.
C16_BlankMatchPathCounts ==
  (level = "match" /\ raw = <<0, 0>> /\ fmt.bestOfSets \in {3, 5}) =>
     /\ pc \notin {"rejected", "raised", "exhausted"}
     /\ Returned =>
          /\ Len(paths) = IF fmt.bestOfSets = 3 THEN 6 ELSE 20
          /\ \A i \in 1..Len(paths) : MatchScore_isFinal(Last(paths[i]).score, fmt)

C16_Witness ==
  /\ pc = "done" /\ level = "match" /\ raw = <<0, 0>> /\ fmt.bestOfSets = 5
  /\ Cardinality(PathSet) = 20
  /\ \E i \in 1..Len(paths) : Last(paths[i]).score = <<2, 3>>

\* the player whose win probability the level's function returns
PlayerOfInterest == IF level = "game" THEN server ELSE 1

\* C17: for an initial score that is already final the win-probability
\* function returns exactly 1 if the player of interest has won and exactly 0
\* if the opponent has, whatever the serve probabilities.
C17_FinalScoreProbability ==
  (pc = "evaluated" /\ level \in {"game", "tiebreak"}
     /\ ScoreIsFinal(level, score, fmt, isSuper, isFinalSet)) =>
     /\ ~result.win.raised
     /\ result.win.value =
          IF (IF level = "game" THEN GameScore_winner(score, fmt)
              ELSE TiebreakScore_winner(score, isSuper)) = PlayerOfInterest
          THEN ROne ELSE RZero

C17_Witness ==
  /\ pc = "evaluated" /\ level = "game" /\ server = 2
  /\ GameScore_winner(score, fmt) = 2
  /\ probs[1] = <<1, 3>>
  /\ result.win.value = ROne

\* C15: from a blank first-to-7 tiebreak generateAllPaths returns exactly
\* 2508 paths, whichever player serves first.
C15_BlankTiebreakPathCount ==
  (level = "tiebreak" /\ raw = <<0, 0>> /\ ~isSuper) =>
     /\ pc \notin {"rejected", "raised", "exhausted"}
     /\ Returned => Len(paths) = 2508

C15_Witness ==
  /\ pc = "done" /\ level = "tiebreak" /\ raw = <<0, 0>> /\ ~isSuper /\ server = 2
  /\ Cardinality(PathSet) = 2508

\* the set score handed to the constructor, with the score of the game or
\* tiebreak in progress if one was given, is a reachable one
ValidSetStart ==
  /\ ReachableSet(raw, fmt, isFinalSet)
  /\ sub.kind = "game" => ReachableGame(sub.pts, fmt)
  /\ sub.kind = "tiebreak" => ReachableTiebreak(sub.pts, isSuper)

GameActive     == IF level = "Set" THEN cur.currentGame ELSE cur.set.hasGame
TiebreakActive == IF level = "Set" THEN cur.tiebreaker ELSE cur.set.hasTb

\* C18: after any sequence of recorded points from a valid initial set score
\* exactly one of the current game and the current tiebreak is active while
\* the set is not final, neither is active once it is final, and recordPoint
\* never raises the inconsistent-state error.
C18_OneOfGameAndTiebreakActive ==
  (pc = "play" /\ level \in {"set", "Set"} /\ ValidSetStart) =>
     /\ err \notin {"RuntimeError", "AttributeError"}
     /\ IF CurIsFinal THEN ~GameActive /\ ~TiebreakActive
        ELSE GameActive # TiebreakActive
     /\ level = "Set" => (cur.set.hasGame = cur.currentGame /\ cur.set.hasTb = cur.tiebreaker)

C18_Witness ==
  /\ pc = "play" /\ level = "Set" /\ ValidSetStart /\ played > 1
  /\ fmt.setEnding = TIEBREAK /\ raw = <<fmt.setLength, fmt.setLength - 1>>
  /\ sub.kind = "game"
  /\ cur.tiebreaker /\ ~cur.currentGame /\ cur.set.tb # <<0, 0>>

\* whether the uncapped twin is final, and who won it
TwinIsFinal ==
  IF level = "game" THEN GameScore_isFinal(twin, Plain(fmt))
  ELSE TiebreakScore_isFinal(twin, isSuper)

CurWinner ==
  IF level = "game" THEN GameScore_winner(cur.set.game, fmt)
  ELSE TiebreakScore_winner(cur.set.tb, isSuper)

TwinWinner ==
  IF level = "game" THEN GameScore_winner(twin, Plain(fmt))
  ELSE TiebreakScore_winner(twin, isSuper)

\* C19: whatever points are recorded, a game or tiebreak score with capping
\* enabled is final exactly when the same score with capping disabled is, and
\* then has the same winner.
C19_CappingKeepsOutcome ==
  (pc = "play" /\ level \in {"game", "tiebreak"} /\ fmt.capPoints) =>
     /\ CurIsFinal <=> TwinIsFinal
     /\ CurWinner = TwinWinner

\* GameScore(4, 5) under the no-ad rule: capped to 3-4 it is final, won by
\* Player2; uncapped it is 4-5, not final, and stays so after a further point
C19_Counterexample ==
  /\ pc = "play" /\ level = "game" /\ fmt.capPoints /\ fmt.noAdRule
  /\ raw = <<4, 5>> /\ played = 1 /\ err = "ValueError"
  /\ cur.set.game = <<3, 4>> /\ CurIsFinal /\ CurWinner = 2
  /\ twin[1] + twin[2] = 10 /\ ~TwinIsFinal

\* number of odd-numbered points among the points m+1 .. n of a tiebreak
OddPointsBetween(m, n) == ((n + 1) \div 2) - ((m + 1) \div 2)

\* who serves once k further points are played, when 'first' serves after the
\* 'before' points already played
RotationServer(first, before, k) ==
  IF OddPointsBetween(before, before + k) % 2 = 0 THEN first ELSE 3 - first

\* C20: in every tiebreak path the server recorded with each score follows
\* the rotation: the serve changes after every odd-numbered point of the
\* tiebreak (one point for the first server, then two points each), for either
\* first server.
C20_TiebreakServerRotation ==
  (level = "tiebreak" /\ pc \in {"extend", "done", "evaluated"}) =>
     \A i \in 1..Len(paths) : \A k \in 1..Len(paths[i]) :
        paths[i][k].srv = RotationServer(server, raw[1] + raw[2], k - 1)

C20_Witness ==
  /\ level = "tiebreak" /\ pc = "done" /\ raw = <<0, 0>> /\ server = 2
  /\ \E i \in 1..Len(paths) :
       /\ Last(paths[i]).score = <<7, 0>>
       /\ [k \in 1..Len(paths[i]) |-> paths[i][k].srv] = <<2, 1, 1, 2, 2, 1, 1, 2>>

----------------------------------------------------------------------------
(* No-ad games *)

\* C24: under the no-ad rule every game path generateAllPaths returns from a
\* valid initial score ends in a final score, and the enumeration returns.
C24_NoAdPathsEndFinal ==
  (level = "game" /\ fmt.noAdRule /\ ValidInitialScore) =>
     /\ pc \notin {"rejected", "raised", "exhausted"}
     /\ Returned =>
          \A i \in 1..Len(paths) : GameScore_isFinal(Last(paths[i]).score, fmt)

C24_Witness ==
  /\ level = "game" /\ fmt.noAdRule /\ pc = "done" /\ raw = <<0, 0>>
  /\ \E i \in 1..Len(paths) :
       /\ Len(paths[i]) = 8
       /\ paths[i][7].score = <<3, 3>>
       /\ GameScore_isFinal(Last(paths[i]).score, fmt)

----------------------------------------------------------------------------
(* Win condition, isFinal and winner *)

\* the initial score of a PlaySpec behaviour is one that play reaches from blank
ReachableStart ==
  CASE level = "game"     -> ReachableGame(raw, fmt)
    [] level = "tiebreak" -> ReachableTiebreak(raw, isSuper)
    [] level = "set"      -> ValidSetStart
    [] level = "match"    -> /\ ReachableMatch(raw, fmt)
                             /\ sub.kind = "set" => ReachableSet(sub.pts, fmt, isFinalSet)
    [] OTHER              -> FALSE

\* _playerWon of the score object at the behaviour's level
CurPlayerWon(player) ==
  CASE level = "game"     -> GameScore_playerWon(cur.set.game, player, fmt)
    [] level = "tiebreak" -> TiebreakScore_playerWon(cur.set.tb, player, isSuper)
    [] level = "set"      -> SetScore_playerWon(cur.set.games, player, fmt, cur.set.finalSet)
    [] level = "match"    -> MatchScore_playerWon(cur.sets, player, fmt)

\* the winner property of the score object at the behaviour's level (0 is None)
CurWinnerProperty ==
  CASE level = "game"     -> GameScore_winner(cur.set.game, fmt)
    [] level = "tiebreak" -> TiebreakScore_winner(cur.set.tb, isSuper)
    [] level = "set"      -> SetScore_winner(cur.set.games, fmt, cur.set.finalSet)
    [] level = "match"    -> MatchScore_winner(cur.sets, fmt)

\* C25: in every score reached by recording points from a score that play
\* reaches from blank (game, tiebreak, set, match) at most one player
\* satisfies the win condition, isFinal holds exactly when one does, and
\* winner is that player, and None otherwise.
C25_WinnerIffFinal ==
  (pc = "play" /\ level \in {"game", "tiebreak", "set", "match"} /\ ReachableStart) =>
     /\ ~(CurPlayerWon(1) /\ CurPlayerWon(2))
     /\ CurIsFinal <=> (CurPlayerWon(1) \/ CurPlayerWon(2))
     /\ CurWinnerProperty = (IF CurPlayerWon(1) THEN 1 ELSE IF CurPlayerWon(2) THEN 2 ELSE 0)

C25_Witness ==
  /\ pc = "play" /\ level = "set" /\ ReachableStart /\ played > 0 /\ err = "none"
  /\ fmt.setEnding = TIEBREAK /\ raw = <<fmt.setLength, fmt.setLength>>
  /\ CurIsFinal /\ CurPlayerWon(2) /\ ~CurPlayerWon(1) /\ CurWinnerProperty = 2

----------------------------------------------------------------------------
(* Which sub-contest a set is in *)

\* the ending rule that applies to the set being played
ApplicableEnding == IF isFinalSet THEN fmt.finalSetEnding ELSE fmt.setEnding

\* C26: after any sequence of points in a set, a tiebreak is the active
\* sub-contest exactly when the games are tied at setLength-all and the ending
\* rule that applies to the set is tiebreak or super-tiebreak; in every other
\* non-final state a regular game is active, so an advantage-ending set never
\* starts a tiebreak.
C26_TiebreakOnlyAtTieUnderTiebreakEnding ==
  (pc = "play" /\ level \in {"set", "Set"} /\ ValidSetStart) =>
     /\ TiebreakActive <=>
          /\ cur.set.games = <<fmt.setLength, fmt.setLength>>
          /\ ApplicableEnding \in {TIEBREAK, SUPERTIEBREAK}
     /\ (~CurIsFinal /\ ~TiebreakActive) => GameActive
     /\ ApplicableEnding = ADVANTAGE => ~TiebreakActive

C26_Witness ==
  /\ pc = "play" /\ level = "set" /\ ValidSetStart /\ played > 0 /\ err = "none"
  /\ isFinalSet /\ fmt.finalSetEnding = ADVANTAGE /\ fmt.setEnding = TIEBREAK
  /\ raw = <<fmt.setLength, fmt.setLength - 1>>
  /\ cur.set.games = <<fmt.setLength, fmt.setLength>>
  /\ GameActive /\ ~TiebreakActive

----------------------------------------------------------------------------
(* Playing contests: a caller constructs a Game, Tiebreak, Set or Match and  *)
(* calls recordPoint on it, with any integer as the player.                  *)

MaxContestPoints == 9

ContestLevels == {"Game", "Tiebreak", "Set", "Match"}

\* what a caller may pass where a player is expected
Designators == 1..3

ContestSetFormats ==
  {MatchFormat(3, 1, e[1], e[2], r[1], r[2]) :
     e \in {<<TIEBREAK, SUPERTIEBREAK>>, <<ADVANTAGE, TIEBREAK>>, <<TIEBREAK, TIEBREAK>>},
     r \in {<<FALSE, TRUE>>, <<TRUE, TRUE>>, <<FALSE, FALSE>>}}

ContestMatchFormats ==
  {MatchFormat(b, 1, e, e, FALSE, TRUE) : b \in {1, 3}, e \in {TIEBREAK, ADVANTAGE}}

ContestInit ==
  /\ \/ /\ level = "Game"
        /\ fmt \in GameFormats
        /\ isSuper = FALSE /\ isFinalSet = FALSE
        /\ raw \in {<<0, 0>>, <<3, 3>>}
     \/ /\ level = "Tiebreak"
        /\ fmt \in TiebreakFormats
        /\ isSuper \in BOOLEAN /\ isFinalSet = FALSE
        /\ raw \in {<<0, 0>>, <<1, 0>>, <<TiebreakScore_pointsToWin(isSuper) - 2,
                                        TiebreakScore_pointsToWin(isSuper) - 2>>}
     \/ /\ level = "Set"
        /\ fmt \in ContestSetFormats
        /\ isSuper = FALSE /\ isFinalSet \in BOOLEAN
        /\ raw \in {<<0, 0>>, <<fmt.setLength, fmt.setLength>>}
     \/ /\ level = "Match"
        /\ fmt \in ContestMatchFormats
        /\ isSuper = FALSE /\ isFinalSet = FALSE
        /\ raw \in {<<0, 0>>, <<1, 0>>, <<1, 1>>}
  /\ server \in Designators
  /\ sub = NoSub
  /\ pc = "new"
  /\ score = <<0, 0>>
  /\ succ = NoSucc
  /\ paths = <<>>
  /\ passes = 0
  /\ probs = <<RZero, RZero>>
  /\ result = NoResult
  /\ cur = NoObj
  /\ played = 0
  /\ err = "none"
  /\ twin = <<0, 0>>
  /\ arg = <<>>
  /\ cache = <<>>
  /\ heap = NoHeap

\* Game(server, GameScore(raw)), Tiebreak(server, isSuper, TiebreakScore(raw)),
\* Set(server, isFinalSet, SetScore(raw)), Match(server, fmt, MatchScore(raw))
ContestObject ==
  IF server \notin Players THEN [ok |-> FALSE, o |-> NoObj]
  ELSE CASE level = "Game" ->
              LET c == GameScore_init(raw[1], raw[2], fmt)
              IN [ok |-> c.ok, o |-> Game_init(server, c.s)]
         [] level = "Tiebreak" ->
              LET c == TiebreakScore_init(raw[1], raw[2], isSuper, fmt.capPoints)
              IN [ok |-> c.ok, o |-> Tiebreak_init(server, isSuper, c.s)]
         [] level = "Set" ->
              LET c == SetScore_new(raw[1], raw[2], isFinalSet, fmt,
                                    FALSE, <<0, 0>>, FALSE, <<0, 0>>, FALSE)
              IN IF ~c.ok THEN [ok |-> FALSE, o |-> NoObj]
                 ELSE Set_init(server, isFinalSet, c.o, fmt)
         [] level = "Match" ->
              LET c == MatchScore_new(raw[1], raw[2], fmt, FALSE, BlankSetObj)
              IN IF ~c.ok THEN [ok |-> FALSE, o |-> NoObj]
                 ELSE Match_init(server,
                                 [sets |-> c.o.sets, hasSet |-> c.o.hasSet, set |-> c.o.set],
                                 fmt)

NewContest ==
  /\ pc = "new" /\ level \in ContestLevels
  /\ pc' = IF ContestObject.ok THEN "play" ELSE "rejected"
  /\ cur' = ContestObject.o
  /\ UNCHANGED <<level, fmt, isSuper, isFinalSet, raw, server, score, succ, paths, passes,
                 probs, result, sub, played, err, twin, arg, cache, heap>>

\* recordPoint(pointWinner) on the contest
ContestRecordPoint(pointWinner) ==
  CASE level = "Game"     -> Game_recordPoint(cur, pointWinner, fmt)
    [] level = "Tiebreak" -> Tiebreak_recordPoint(cur, pointWinner, fmt)
    [] level = "Set"      -> Set_recordPoint(cur, pointWinner, fmt)
    [] level = "Match"    -> Match_recordPoint(cur, pointWinner, fmt)

\* a call with a valid player counts as a played point; one with an invalid
\* designator does not
ContestPoint ==
  /\ pc = "play"
  /\ played < MaxContestPoints
  /\ \E pointWinner \in Designators :
       \E r \in {ContestRecordPoint(pointWinner)} :
       /\ cur' = r.o
       /\ err' = r.err
       /\ arg' = <<pointWinner>>
       /\ played' = IF pointWinner \in Players THEN played + 1 ELSE played
  /\ UNCHANGED <<level, fmt, isSuper, isFinalSet, raw, server, pc, score, succ, paths, passes,
                 probs, result, sub, twin, cache, heap>>

\* recordPoints(pointWinners): a recordPoint call for each element in turn,
\* until one of them raises
RECURSIVE Contest_recordPoints(_, _, _, _, _)
Contest_recordPoints(lv, o, pointWinners, f, done) ==
  IF pointWinners = <<>> THEN [err |-> "none", o |-> o, done |-> done]
  ELSE CHOOSE res \in
         {IF r.err # "none" THEN [err |-> r.err, o |-> r.o, done |-> done]
          ELSE Contest_recordPoints(lv, r.o, Tail(pointWinners), f, done + 1)
            : r \in {CASE lv = "Game"     -> Game_recordPoint(o, Head(pointWinners), f)
                       [] lv = "Tiebreak" -> Tiebreak_recordPoint(o, Head(pointWinners), f)
                       [] lv = "Set"      -> Set_recordPoint(o, Head(pointWinners), f)
                       [] lv = "Match"    -> Match_recordPoint(o, Head(pointWinners), f)}}
         : TRUE

\* a list of two: a valid player, then any integer
ContestPoints ==
  /\ pc = "play"
  /\ played + 2 <= MaxContestPoints
  /\ \E first \in Players, second \in Designators :
       \E r \in {Contest_recordPoints(level, cur, <<first, second>>, fmt, 0)} :
          /\ cur' = r.o
          /\ err' = r.err
          /\ arg' = <<first, second>>
          /\ played' = played + r.done
  /\ UNCHANGED <<level, fmt, isSuper, isFinalSet, raw, server, pc, score, succ, paths, passes,
                 probs, result, sub, twin, cache, heap>>

\* a player handed to the latest call is not 1 or 2
InvalidPlayer == \E i \in 1..Len(arg) : arg[i] \notin Players

ContestNext == NewContest \/ ContestPoint \/ ContestPoints

ContestSpec == ContestInit /\ [][ContestNext]_vars

\* isOver of a contest object
Contest_isOver(lv, o, f) ==
  CASE lv = "Game"     -> GameScore_isFinal(o.score, f)
    [] lv = "Tiebreak" -> TiebreakScore_isFinal(o.score, o.super)
    [] lv = "Set"      -> SetScore_isFinal(o.set.games, f, o.set.finalSet)
    [] lv = "Match"    -> MatchScore_isFinal(o.score.sets, f)

\* winner of a contest object (0 for None)
Contest_winner(lv, o, f) ==
  CASE lv = "Game"     -> GameScore_winner(o.score, f)
    [] lv = "Tiebreak" -> TiebreakScore_winner(o.score, o.super)
    [] lv = "Set"      -> SetScore_winner(o.set.games, f, o.set.finalSet)
    [] lv = "Match"    -> MatchScore_winner(o.score.sets, f)

\* the player a contest object reports as serving the next point
Contest_servesNext(lv, o, f) ==
  CASE lv = "Game"     -> o.server
    [] lv = "Tiebreak" -> o.servesNext
    [] lv = "Set"      -> Set_servesNext(o, f)
    [] lv = "Match"    -> Match_servesNext(o, f)

\* pointHistory of a contest object
Contest_pointHistory(lv, o) ==
  CASE lv \in {"Game", "Tiebreak"} -> o.pointHistory
    [] lv = "Set"                  -> Set_pointHistory(o)
    [] lv = "Match"                -> Match_pointHistory(o)

CurIsOver == Contest_isOver(level, cur, fmt)

\* number of points a player won according to a point history
PointsWonBy(history, player) == Cardinality({i \in 1..Len(history) : history[i] = player})

\* totalPoints of a Set or Match object
Contest_totalPoints(lv, o) ==
  IF lv = "Set" THEN Set_totalPoints(o) ELSE Match_totalPoints(o)

----------------------------------------------------------------------------
\* C22: after any sequence of recorded points, the totalPoints a Set or a
\* Match reports equals the number of points each player won according to
\* its pointHistory, also after deuce under a capping format.
C22_TotalPointsMatchHistory ==
  (pc = "play" /\ level \in {"Set", "Match"}) =>
     Contest_totalPoints(level, cur)
       = <<PointsWonBy(Contest_pointHistory(level, cur), 1),
           PointsWonBy(Contest_pointHistory(level, cur), 2)>>

\* a blank set under a capping format, after eight points through deuce and
\* advantage back to deuce: four points each in the history, 3-3 reported
C22_Counterexample ==
  /\ pc = "play" /\ level = "Set" /\ raw = <<0, 0>> /\ fmt.capPoints /\ ~fmt.noAdRule
  /\ Set_pointHistory(cur) = <<1, 1, 1, 2, 2, 2, 1, 2>>
  /\ cur.game.score = <<3, 3>>
  /\ Set_totalPoints(cur) = <<3, 3>>

----------------------------------------------------------------------------
\* C21: recordPoint with a valid player (alone, or for each point of a
\* recordPoints list of valid players) on a Game, Tiebreak, Set or Match
\* that is already over returns normally and changes nothing: the score, the
\* winner, the histories and the next server all stay as they were.
C21_RecordPointOnOverContestIsIgnored ==
  [][(pc = "play" /\ level \in ContestLevels /\ played' > played /\ ~InvalidPlayer'
        /\ CurIsOver) =>
       /\ err' = "none"
       /\ cur' = cur
       /\ Contest_winner(level, cur, fmt)' = Contest_winner(level, cur, fmt)
       /\ Contest_pointHistory(level, cur)' = Contest_pointHistory(level, cur)
       /\ Contest_servesNext(level, cur, fmt)' = Contest_servesNext(level, cur, fmt)]_vars

\* a set that ended after its points were played, then was given one more
C21_Witness ==
  /\ pc = "play" /\ level = "Set" /\ CurIsOver
  /\ arg \in {<<1>>, <<2>>} /\ err = "none"
  /\ Len(Set_pointHistory(cur)) = 8
  /\ played = 9

\* the Set object that takes the next point of a Set or of a Match
CurSet == IF level = "Set" THEN cur ELSE cur.setObj

\* the step archived the regular game in progress, and the set it belongs to
\* is the same Set object after the step (in a match: no new set was opened)
GameArchived ==
  /\ Len(CurSet'.gameHistory) = Len(CurSet.gameHistory) + 1
  /\ Last(CurSet'.gameHistory).isGame

SetArchived == level = "Match" /\ Len(cur'.setHistory) # Len(cur.setHistory)

----------------------------------------------------------------------------
\* C27: within a set, the reported next server stays the same while a regular
\* game is in progress and switches to the other player when the game is
\* completed, for any sequence of points and either first server.
C27_ServerSwitchesAfterEachGame ==
  [][(pc = "play" /\ level \in {"Set", "Match"} /\ played' = played + 1
        /\ ~CurIsOver /\ CurSet.currentGame /\ ~SetArchived) =>
       /\ Contest_servesNext(level, cur, fmt) \in Players
       /\ IF GameArchived
          THEN Contest_servesNext(level, cur, fmt)' = 3 - Contest_servesNext(level, cur, fmt)
          ELSE Contest_servesNext(level, cur, fmt)' = Contest_servesNext(level, cur, fmt)]_vars

\* two games completed in a blank set that Player2 began to serve
C27_Witness ==
  /\ pc = "play" /\ level = "Set" /\ raw = <<0, 0>> /\ server = 2
  /\ Len(cur.gameHistory) = 2
  /\ cur.gameHistory[1].game.server = 2 /\ cur.gameHistory[2].game.server = 1
  /\ cur.currentGame /\ Set_servesNext(cur, fmt) = 2

----------------------------------------------------------------------------
\* C28: after any sequence of points from a blank match, setHistory holds as
\* many sets as the two players have won together, and currentSet is None
\* exactly when the match is over.
C28_SetHistoryCountsSetsWon ==
  (pc = "play" /\ level = "Match" /\ raw = <<0, 0>>) =>
     /\ Len(cur.setHistory) = cur.score.sets[1] + cur.score.sets[2]
     /\ ~cur.currentSet <=> CurIsOver
     /\ cur.currentSet <=> cur.score.hasSet

\* a best-of-three match after its first set, with the second set under way,
\* and a best-of-one match that is over
C28_Witness ==
  /\ pc = "play" /\ level = "Match" /\ raw = <<0, 0>>
  /\ \/ /\ fmt.bestOfSets = 3 /\ Len(cur.setHistory) = 1 /\ cur.score.sets = <<0, 1>>
        /\ cur.currentSet /\ cur.setObj.game.score = <<1, 0>>
     \/ /\ fmt.bestOfSets = 1 /\ Len(cur.setHistory) = 1 /\ CurIsOver /\ ~cur.currentSet

----------------------------------------------------------------------------
(* Asking for set-win probabilities: the caller loads the tiebreak          *)
(* win-probability function once, then asks probabilityP1WinsSet about a    *)
(* set score, with any integer as the server and any number as probability  *)

\* the probabilities asked about
QueryProbs == {<<1, 3>>, <<1, 2>>}
QueryPairs == QueryProbs \X QueryProbs

\* what a caller may pass where a probability is expected
ArgProbs == QueryProbs \cup {<<-1, 2>>, <<3, 2>>}

\* sets of length 1: with longer sets the exact fractions no longer fit 32-bit integers
QueryFormats ==
  {MatchFormat(3, 1, e, e, noAd, cap) : e \in SetEnding, noAd \in BOOLEAN, cap \in BOOLEAN}

QueryInit ==
  /\ level = "set"
  /\ fmt = DefaultFormat
  /\ isSuper = FALSE /\ isFinalSet = FALSE
  /\ raw = <<0, 0>>
  /\ server = 1
  /\ sub = NoSub
  /\ pc = "new"
  /\ score = <<0, 0>>
  /\ succ = NoSucc
  /\ paths = <<>>
  /\ passes = 0
  /\ probs = <<RZero, RZero>>
  /\ result = NoResult
  /\ cur = NoObj
  /\ played = 0
  /\ err = "none"
  /\ twin = <<0, 0>>
  /\ arg = <<>>
  /\ cache = <<>>
  /\ heap = NoHeap

LoadCachedFunction ==
  /\ pc = "new" /\ level = "set"
  /\ pc' = "loaded"
  /\ cache' = probP1WinsTiebreakFunc(QueryPairs)
  /\ UNCHANGED <<level, fmt, isSuper, isFinalSet, raw, server, score, succ, paths, passes,
                 probs, result, sub, cur, played, err, twin, arg, heap>>

\* the caller builds SetScore(games, False, f [, gameScore=GameScore(0, 0, f)])
\* and picks the other arguments
Ask ==
  /\ pc = "loaded"
  /\ \E f \in QueryFormats, hasGame \in BOOLEAN,
        playerServing \in Designators, p1 \in ArgProbs, p2 \in ArgProbs :
       \E games \in (0..(f.setLength + 1)) \X (0..(f.setLength + 1)) :
          /\ SetScore_new(games[1], games[2], FALSE, f,
                          hasGame, <<0, 0>>, FALSE, <<0, 0>>, FALSE).ok
          /\ fmt' = f /\ raw' = games
          /\ sub' = [kind |-> IF hasGame THEN "game" ELSE "none", pts |-> <<0, 0>>]
          /\ server' = playerServing /\ arg' = <<playerServing>>
          /\ probs' = <<p1, p2>>
  /\ pc' = "asking"
  /\ UNCHANGED <<level, isSuper, isFinalSet, score, succ, paths, passes, result, cur, played,
                 err, twin, cache, heap>>

\* probabilityP1WinsSet(setScore, playerServing, [p1], p2)
Query ==
  /\ pc = "asking"
  /\ \E r \in {probabilityP1WinsSet(raw, sub.kind = "game", sub.pts, server, probs[1], probs[2],
                                     fmt, isFinalSet, cache)} :
        /\ result' = IF r.err = "none" THEN [sum |-> RZero, win |-> r.value] ELSE result
        /\ err' = r.err
  /\ pc' = "asked"
  /\ UNCHANGED <<level, fmt, isSuper, isFinalSet, raw, server, score, succ, paths, passes,
                 probs, sub, cur, played, twin, arg, cache, heap>>

QueryNext == LoadCachedFunction \/ Ask \/ Query

QuerySpec == QueryInit /\ [][QueryNext]_vars

\* the decomposition of the set-win probability over the next game
GameSplit ==
  LET g0  == probabilityServerWinsGame(GamePath_generateAllPaths(<<0, 0>>, fmt).paths,
                                       server, probs[server], fmt).value
      g   == IF server = 1 THEN g0 ELSE RSub(ROne, g0)
      W1  == probabilityP1WinsSetFromGameBoundary(<<raw[1] + 1, raw[2]>>, 3 - server,
                                                  probs[1], probs[2], fmt, isFinalSet, cache)
      W2  == probabilityP1WinsSetFromGameBoundary(<<raw[1], raw[2] + 1>>, 3 - server,
                                                  probs[1], probs[2], fmt, isFinalSet, cache)
  IN [err   |-> IF W1.err # "none" THEN W1.err ELSE W2.err,
      value |-> RAdd(RMul(g, W1.value), RMul(RSub(ROne, g), W2.value))]

\* the query was made with valid arguments about a set score at a game
\* boundary that is neither final nor tied
BoundaryQuery ==
  /\ pc = "asked" /\ sub.kind = "none"
  /\ server \in Players /\ RInUnit(probs[1]) /\ RInUnit(probs[2])
  /\ ~SetScore_isFinal(raw, fmt, isFinalSet)
  /\ ~SetScore_isTied(raw, fmt)

----------------------------------------------------------------------------
----------------------------------------------------------------------------
(* Contests and queries together: every operation that takes a player or a *)
(* probability from the caller                                             *)

ApiSpec == (ContestInit \/ QueryInit) /\ [][ContestNext \/ QueryNext]_vars

\* the arguments of the pending probabilityP1WinsSet call are not all valid
BadQuery == server \notin Players \/ ~RInUnit(probs[1]) \/ ~RInUnit(probs[2])

\* C30: an operation given a player other than 1 or 2, or a probability
\* outside [0,1], raises an error and changes no state; this holds for the
\* contest constructors, for the win-probability query, and for recordPoint
\* and recordPoints, also on a contest that is already over.
C30_InvalidArgumentRaises ==
  [][/\ (pc = "new" /\ level \in ContestLevels /\ server \notin Players) =>
          (pc' = "rejected" /\ cur' = cur)
     /\ (pc = "play" /\ InvalidPlayer' /\ <<ContestPoint \/ ContestPoints>>_vars) =>
          (err' = "ValueError" /\ cur' = cur /\ played' = played)
     /\ (pc = "asking" /\ BadQuery) =>
          (err' = "ValueError" /\ result' = result /\ cache' = cache
             /\ raw' = raw /\ fmt' = fmt)]_vars

\* recordPoints([1, 3]) on a blank game: the call raised, and the game holds
\* the first point
C30_Counterexample ==
  /\ pc = "play" /\ level = "Game" /\ raw = <<0, 0>>
  /\ arg = <<1, 3>> /\ err = "ValueError"
  /\ played = 1
  /\ cur.score = <<1, 0>> /\ cur.pointHistory = <<1>>

----------------------------------------------------------------------------
(* Paths as objects: GamePath.increment and generateAllPaths acting on the *)
(* objects a caller holds. A copy is a new object, a reference is shared.  *)

MaxHeapPaths == 7

Rank(D, d) == Cardinality({x \in D : x <= d})

\* copy.deepcopy of the GamePath at address p: a new path object holding new
\* score objects, whose formats are new objects too, one for each format
\* object the original scores refer to
Heap_deepcopy(h, p) ==
  LET scores == h.path[p]
      D == {h.score[scores[i]].fmt : i \in 1..Len(scores)}
      newFmt == [k \in 1..Cardinality(D) |-> h.fmt[CHOOSE d \in D : Rank(D, d) = k]]
      newScore == [i \in 1..Len(scores) |->
                     [pts |-> h.score[scores[i]].pts,
                      fmt |-> Len(h.fmt) + Rank(D, h.score[scores[i]].fmt)]]
      newPath == [i \in 1..Len(scores) |-> Len(h.score) + i]
  IN [fmt |-> h.fmt \o newFmt, score |-> h.score \o newScore, path |-> Append(h.path, newPath)]

\* GameScore.nextScores of the score at address a: two new GameScore objects,
\* constructed with the receiver's _matchFormat
Heap_nextScores(h, a) ==
  CHOOSE res \in
    {[none |-> n.none, raised |-> n.raised,
      h |-> IF n.none \/ n.raised THEN h
            ELSE [h EXCEPT !.score = @ \o <<[pts |-> n.s1, fmt |-> h.score[a].fmt],
                                            [pts |-> n.s2, fmt |-> h.score[a].fmt]>>]]
       : n \in {GameScore_nextScores(h.score[a].pts, h.fmt[h.score[a].fmt])}}
    : TRUE

\* list.append on the _scores of the path allocated last
Heap_append(h, a) == [h EXCEPT !.path[Len(h.path)] = Append(@, a)]

\* GamePath.increment of the path at address p; out: the addresses returned
Heap_increment(h, p) ==
  LET last == Last(h.path[p])
      lastScore == h.score[last]
  IN IF GameScore_isFinal(lastScore.pts, h.fmt[lastScore.fmt])
     THEN [raised |-> FALSE, h |-> Heap_deepcopy(h, p), out |-> <<Len(h.path) + 1>>]
     ELSE CHOOSE res \in
            {IF nextScores.raised THEN [raised |-> TRUE, h |-> h, out |-> <<>>]
             ELSE CHOOSE two \in
                    {CHOOSE one \in
                       {[raised |-> FALSE,
                         h      |-> Heap_append(path2, Len(h.score) + 2),
                         out    |-> <<Len(h.path) + 1, Len(h.path) + 2>>]
                          : path2 \in {Heap_deepcopy(Heap_append(path1, Len(h.score) + 1), p)}}
                       : TRUE
                       : path1 \in {Heap_deepcopy(nextScores.h, p)}}
                    : TRUE
               : nextScores \in {Heap_nextScores(h, last)}}
            : TRUE

\* the body of the loop of GamePath._incrementPaths, for one path
Heap_incrementPath(h, p) ==
  LET lastScore == h.score[Last(h.path[p])]
      isDeuce == GameScore_isDeuce(lastScore.pts)
      standardScoring == ~h.fmt[lastScore.fmt].noAdRule
  IN IF (isDeuce /\ standardScoring) \/ GameScore_isFinal(lastScore.pts, h.fmt[lastScore.fmt])
     THEN [raised |-> FALSE, h |-> Heap_deepcopy(h, p), out |-> <<Len(h.path) + 1>>]
     ELSE Heap_increment(h, p)

\* GamePath._incrementPaths over the paths ps[lo..hi], in order: the first
\* half of the range, then the second half on the objects the first half left
RECURSIVE Heap_incrementPaths(_, _, _, _)
Heap_incrementPaths(h, ps, lo, hi) ==
  IF lo > hi THEN [raised |-> FALSE, h |-> h, out |-> <<>>]
  ELSE IF lo = hi THEN Heap_incrementPath(h, ps[lo])
  ELSE CHOOSE res \in
         {IF first.raised THEN first
          ELSE CHOOSE both \in
                 {IF second.raised THEN second
                  ELSE [raised |-> FALSE, h |-> second.h, out |-> first.out \o second.out]
                    : second \in {Heap_incrementPaths(first.h, ps, (lo + hi) \div 2 + 1, hi)}}
                 : TRUE
            : first \in {Heap_incrementPaths(h, ps, lo, (lo + hi) \div 2)}}
         : TRUE

\* GamePath._extendPaths
RECURSIVE Heap_extendPaths(_, _)
Heap_extendPaths(h, ps) ==
  CHOOSE res \in
    {IF pathsIncremented.raised THEN pathsIncremented
     ELSE IF Len(pathsIncremented.out) = Len(ps)
          THEN [raised |-> FALSE, h |-> pathsIncremented.h, out |-> ps]
     ELSE Heap_extendPaths(pathsIncremented.h, pathsIncremented.out)
       : pathsIncremented \in {Heap_incrementPaths(h, ps, 1, Len(ps))}}
    : TRUE

\* GamePath.__init__: the path holds the caller's score object itself
Heap_GamePath(h, initialScore) == [h EXCEPT !.path = Append(@, <<initialScore>>)]

HeapFormats == {MatchFormat(3, DefaultSetLength, TIEBREAK, TIEBREAK, noAd, cap) :
                  noAd, cap \in BOOLEAN}
HeapScores == {<<0, 0>>, <<1, 2>>, <<3, 3>>, <<4, 1>>}

\* the caller made f = MatchFormat(...) and gs = GameScore(p1, p2, f)
HeapInit ==
  /\ level = "heap"
  /\ fmt \in HeapFormats
  /\ raw \in HeapScores
  /\ GameScore_init(raw[1], raw[2], fmt).ok
  /\ heap = [fmt   |-> <<fmt>>,
             score |-> <<[pts |-> GameScore_init(raw[1], raw[2], fmt).s, fmt |-> 1]>>,
             path  |-> <<>>]
  /\ isSuper = FALSE /\ isFinalSet = FALSE /\ server = 1
  /\ pc = "new"
  /\ score = <<0, 0>> /\ succ = NoSucc /\ paths = <<>> /\ passes = 0
  /\ probs = <<RZero, RZero>> /\ result = NoResult
  /\ sub = NoSub /\ cur = NoObj /\ played = 0 /\ err = "none"
  /\ twin = <<0, 0>> /\ arg = <<>> /\ cache = <<>>

\* path = GamePath(gs)
NewGamePath ==
  /\ pc = "new"
  /\ heap' = Heap_GamePath(heap, 1)
  /\ paths' = <<Len(heap.path) + 1>>
  /\ pc' = "held"
  /\ UNCHANGED <<level, fmt, isSuper, isFinalSet, raw, server, score, succ, passes, probs,
                 result, sub, cur, played, err, twin, arg, cache>>

\* p.increment() on one of the paths the caller holds; arg: the receiver,
\* paths: what the call returned
Increment ==
  /\ pc \in {"held", "incremented"}
  /\ Len(heap.path) + 2 <= MaxHeapPaths
  /\ \E p \in 1..Len(heap.path) :
       \E r \in {Heap_increment(heap, p)} :
          /\ heap' = r.h
          /\ paths' = r.out
          /\ err' = IF r.raised THEN "ValueError" ELSE "none"
          /\ arg' = <<p>>
  /\ pc' = "incremented"
  /\ UNCHANGED <<level, fmt, isSuper, isFinalSet, raw, server, score, succ, passes, probs,
                 result, sub, cur, played, twin, cache>>

\* GamePath.generateAllPaths(gs); paths: the list it returned
GenerateGamePaths ==
  /\ pc = "new"
  /\ \E r \in {Heap_extendPaths(Heap_GamePath(heap, 1), <<Len(heap.path) + 1>>)} :
       /\ heap' = r.h
       /\ paths' = r.out
       /\ err' = IF r.raised THEN "ValueError" ELSE "none"
  /\ pc' = "generated"
  /\ UNCHANGED <<level, fmt, isSuper, isFinalSet, raw, server, score, succ, passes, probs,
                 result, sub, cur, played, twin, arg, cache>>

HeapNext == NewGamePath \/ Increment \/ GenerateGamePaths

HeapSpec == HeapInit /\ [][HeapNext]_vars

\* the mutable objects a path reaches: its scores and their formats
ScoreObjects(h, p)  == {h.path[p][i] : i \in 1..Len(h.path[p])}
FormatObjects(h, p) == {h.score[a].fmt : a \in ScoreObjects(h, p)}

SharedState(h, p, q) ==
  \/ ScoreObjects(h, p) \cap ScoreObjects(h, q) # {}
  \/ FormatObjects(h, p) \cap FormatObjects(h, q) # {}

IsPrefix(a, b) == Len(a) <= Len(b) /\ \A i \in 1..Len(a) : b[i] = a[i]

\* every object that existed before the step is as it was
ObjectsKept ==
  /\ IsPrefix(heap.fmt, heap'.fmt)
  /\ IsPrefix(heap.score, heap'.score)
  /\ IsPrefix(heap.path, heap'.path)

----------------------------------------------------------------------------
\* C29: path generation never modifies its inputs: increment and
\* generateAllPaths leave the receiver path, the initial score and every path
\* that existed unchanged, and the paths increment returns share no mutable
\* object (score or format) with the receiver or with each other.
C29_InputsKeptAndNothingShared ==
  [][level = "heap" =>
       /\ ObjectsKept
       /\ (pc' = "incremented") =>
            \A i \in 1..Len(paths') :
               /\ ~SharedState(heap', paths'[i], arg'[1])
               /\ \A j \in 1..Len(paths') :
                    i # j => ~SharedState(heap', paths'[i], paths'[j])]_vars

\* path = GamePath(GameScore(0, 0, f)); path1, path2 = path.increment(): the
\* last scores of path1 and path2 hold the format object f of the receiver
C29_Counterexample ==
  /\ level = "heap" /\ pc = "incremented" /\ raw = <<0, 0>>
  /\ arg = <<1>> /\ paths = <<2, 3>>
  /\ heap.score[Last(heap.path[1])].fmt = 1
  /\ heap.score[Last(heap.path[2])].fmt = 1
  /\ heap.score[Last(heap.path[3])].fmt = 1
  /\ heap.score[heap.path[2][1]].fmt # 1

----------------------------------------------------------------------------
(* Shape of the win probability as a function of the serve probabilities *)

\* x < y
RLess(x, y) == RSub(y, x)[1] > 0

\* 0 < p < 1
RInterior(p) == p[1] > 0 /\ p[1] < p[2]

\* serve probabilities a caller moves the player of interest's one up to
HigherProbs == {<<1, 2>>, <<2, 3>>, <<3, 4>>}

\* what the level's win-probability function returns for the same initial
\* score when the player of interest's serve probability is q
WinProbabilityAt(q) ==
  IF level = "game" THEN probabilityServerWinsGame(paths, server, q, fmt).value
  ELSE probabilityP1WinsTiebreak(paths, q, probs[2], isSuper).value

\* C31: for a fixed (valid, not yet final) starting score the win probability
\* is strictly increasing in the player of interest's serve probability over
\* the open interval (0, 1).
C31_WinProbabilityStrictlyIncreasing ==
  (pc = "evaluated" /\ level \in {"game", "tiebreak"} /\ ValidInitialScore
     /\ ~ScoreIsFinal(level, score, fmt, isSuper, isFinalSet)
     /\ RInterior(probs[1]) /\ RInterior(probs[2])) =>
     \A q \in HigherProbs :
        RLess(probs[1], q) => RLess(result.win.value, WinProbabilityAt(q))

\* probabilityServerWinsGame(GameScore(3, 4), 1, p) with capping on: 1/4 at
\* p = 1/2 and 9/40 at p = 3/4
C31_Counterexample ==
  /\ pc = "evaluated" /\ level = "game" /\ fmt.capPoints /\ ~fmt.noAdRule
  /\ raw = <<3, 4>> /\ server = 1
  /\ probs[1] = <<1, 2>>
  /\ result.win.value = <<1, 4>>
  /\ WinProbabilityAt(<<3, 4>>) = <<9, 40>>

----------------------------------------------------------------------------
\* C32: from a blank (0-0) score, when both players win the same share of
\* the points they serve, the win probability is exactly 1/2 (for a game,
\* which only one player serves: when the server wins half of the points).
C32_BlankScoreEqualProbsGivesHalf ==
  (pc = "evaluated" /\ level \in {"game", "tiebreak"} /\ raw = <<0, 0>>
     /\ probs[1] = probs[2]
     /\ (level = "game" => probs[1] = <<1, 2>>)) =>
     (~result.win.raised /\ result.win.value = <<1, 2>>)

\* probabilityP1WinsTiebreak(TiebreakScore(0, 0, False), s, 0, 0): the paths
\* ending at 6-6 need the tie formula, which divides by zero
C32_Counterexample ==
  /\ pc = "evaluated" /\ level = "tiebreak" /\ raw = <<0, 0>> /\ ~isSuper
  /\ probs = <<RZero, RZero>>
  /\ Len(paths) = 2508
  /\ result.win.raised

----------------------------------------------------------------------------
(* The server across a set boundary *)

----------------------------------------------------------------------------
\* C34: the set a match is playing is treated as the final set (isFinalSet,
\* so that the final-set ending rule applies to it) exactly when it is the
\* last set that can be played: both players are one set short of winning.
C34_FinalSetIffBothOneSetShort ==
  (pc = "play" /\ level = "Match" /\ cur.currentSet) =>
     (cur.setObj.set.finalSet <=>
        /\ cur.score.sets[1] = MatchScore_setsToWin(fmt) - 1
        /\ cur.score.sets[2] = MatchScore_setsToWin(fmt) - 1)

\* a best-of-three match at one set to love: the second set is played as the
\* final set although a third can follow
C34_Counterexample ==
  /\ pc = "play" /\ level = "Match" /\ raw = <<0, 0>> /\ fmt.bestOfSets = 3
  /\ cur.score.sets = <<1, 0>> /\ Len(cur.setHistory) = 1
  /\ cur.currentSet /\ cur.setObj.set.finalSet
  /\ ~cur.setHistory[1].set.finalSet
  /\ MatchScore_isFinalSet(cur.score.sets, fmt)

----------------------------------------------------------------------------
(* The value of a set path that ends tied *)

\* probabilityP1WinsTiebreak of a blank tiebreak summed score by score instead
\* of path by path: row k holds Player1's chance from each score i-1 : k-i+1
\* with k points played.  The chance of a point is that of
\* Tiebreak_probScoreChange, its server that of TiebreakPath_increment, a tie
\* near the end is worth probabilityP1WinsTie
RECURSIVE TiebreakWinRow(_, _, _, _, _)
TiebreakWinRow(k, first, probWinPointP1, probWinPointP2, super) ==
  IF k > 2 * TiebreakScore_pointsToWin(super) - 2 THEN <<>>
  ELSE CHOOSE row \in
         {[i \in 1..(k + 1) |->
             LET s               == <<i - 1, k - (i - 1)>>
                 nextScores      == TiebreakScore_nextScores(s, super, TRUE)
                 probP1WinsPoint == IF RotationServer(first, 0, k) = 1 THEN probWinPointP1
                                    ELSE RSub(ROne, probWinPointP2)
             IN IF TiebreakScore_isDeuce(s, super)
                THEN probabilityP1WinsTie(probWinPointP1, probWinPointP2).value
                ELSE IF TiebreakScore_isFinal(s, super)
                THEN (IF TiebreakScore_winner(s, super) = 1 THEN ROne ELSE RZero)
                ELSE RAdd(RMul(probP1WinsPoint, above[nextScores.s1[1] + 1]),
                          RMul(RSub(ROne, probP1WinsPoint), above[nextScores.s2[1] + 1]))]
            \o <<>>
            : above \in {TiebreakWinRow(k + 1, first, probWinPointP1, probWinPointP2, super)}}
         : TRUE

BlankTiebreakWin(first, probWinPointP1, probWinPointP2, super) ==
  TiebreakWinRow(0, first, probWinPointP1, probWinPointP2, super)[1]

\* the ending that applies to the queried set
QueriedEnding == IF isFinalSet THEN fmt.finalSetEnding ELSE fmt.setEnding

\* Player1's chance to win the game that player serves, from 0-0, under the
\* queried format
OwnGameWin(player) ==
  LET g == probabilityServerWinsGame(GamePath_generateAllPaths(<<0, 0>>, fmt).paths,
                                     player, probs[player], fmt).value
  IN IF player = 1 THEN g ELSE RSub(ROne, g)

\* Player1's chance in the tie resolution the queried format prescribes at
\* setLength-all with server to serve next: a tiebreak to 7, a super-tiebreak
\* to 10, or games until one player leads by two (Player1 takes the next two
\* games before Player2 does)
TieResolution ==
  CASE QueriedEnding = TIEBREAK ->
         BlankTiebreakWin(server, probs[1], probs[2], FALSE)
    [] QueriedEnding = SUPERTIEBREAK ->
         BlankTiebreakWin(server, probs[1], probs[2], TRUE)
    [] QueriedEnding = ADVANTAGE ->
         LET a == RMul(OwnGameWin(1), OwnGameWin(2))
             b == RMul(RSub(ROne, OwnGameWin(1)), RSub(ROne, OwnGameWin(2)))
         IN RDiv(a, RAdd(a, b))

\* the query was made with valid arguments about a set score at a game
\* boundary that is tied at setLength-all
TiedQuery ==
  /\ pc = "asked" /\ sub.kind = "none"
  /\ server \in Players /\ RInUnit(probs[1]) /\ RInUnit(probs[2])
  /\ SetScore_isTied(raw, fmt)

\* C35: the value the set aggregator gives a path that ends tied at
\* setLength-all (seen from outside: what it returns for a set that is tied)
\* is the win probability of the tie resolution the set's own format
\* prescribes: a tiebreak to 7, a super-tiebreak to 10, or advantage play.
C35_TiedPathValuedByOwnFormat ==
  (TiedQuery /\ err = "none") => result.win = TieResolution

\* a set tied at 1-1 that ends in a super-tiebreak, Player1 to serve, winning
\* a third of the points on serve against Player2's half: the aggregator
\* returns the value of a tiebreak to 7
C35_Counterexample ==
  /\ TiedQuery /\ err = "none"
  /\ fmt.setEnding = SUPERTIEBREAK /\ ~fmt.noAdRule /\ fmt.capPoints
  /\ server = 1 /\ probs = <<<<1, 3>>, <<1, 2>>>>
  /\ result.win = BlankTiebreakWin(1, <<1, 3>>, <<1, 2>>, FALSE)
  /\ result.win # TieResolution

----------------------------------------------------------------------------
(* The format behind the per-step factors *)

\* the set-win probability of the queried score when every game of a path is
\* priced with the game-win probability of the queried format; paths and the
\* value of a tied path are those of probabilityP1WinsSetFromGameBoundary
OwnFormatSetWin ==
  LET allPaths == SetPath_generateAllPaths(raw, server, fmt, isFinalSet).paths
      probP1WinsGame == <<OwnGameWin(1), OwnGameWin(2)>>
      probScoreChange(path, i) ==
        LET P1wonGame == path[i].score[1] > path[i - 1].score[1]
        IN IF P1wonGame THEN probP1WinsGame[path[i - 1].srv]
           ELSE RSub(ROne, probP1WinsGame[path[i - 1].srv])
      probWinPath(path) ==
        RMul(RProduct([k \in 1..(Len(path) - 1) |-> probScoreChange(path, k + 1)],
                      1, Len(path) - 1),
             IF SetScore_isTied(Last(path).score, fmt) THEN cache[Last(path).srv][probs].value
             ELSE IF SetScore_winner(Last(path).score, fmt, isFinalSet) = 1 THEN ROne
             ELSE RZero)
  IN RSum([i \in 1..Len(allPaths) |-> probWinPath(allPaths[i])], 1, Len(allPaths))

\* C36: the game-win probabilities that price the steps of a set path are
\* computed under the queried score's own match format (its no-ad rule): the
\* set-win probability returned for a set score at a game boundary is the one
\* obtained with the queried format's game-win probability at every step.
C36_StepFactorsUnderOwnFormat ==
  (BoundaryQuery /\ err = "none") => result.win = OwnFormatSetWin

\* a no-ad set of length 1 at 1-0 with Player2 to serve, who wins a third of
\* the points on serve: the step is priced with the game-win probability of
\* the default (advantage) format
C36_Counterexample ==
  /\ BoundaryQuery /\ err = "none"
  /\ fmt.noAdRule /\ fmt.setEnding = TIEBREAK /\ fmt.capPoints
  /\ raw = <<1, 0>> /\ server = 2 /\ probs = <<<<1, 2>>, <<1, 3>>>>
  /\ OwnGameWin(2) # RSub(ROne, probWinGameFunction[<<1, 3>>])
  /\ result.win = RAdd(RSub(ROne, probWinGameFunction[<<1, 3>>]),
                       RMul(probWinGameFunction[<<1, 3>>], cache[1][probs].value))
  /\ result.win # OwnFormatSetWin

----------------------------------------------------------------------------
(* A contest and the score it holds.  A Set hands every point to its Game or *)
(* Tiebreak and a Match to its Set, and each writes the score it shares with *)
(* the composite; the standalone SetScore and MatchScore record the same     *)
(* point by themselves.                                                      *)

\* recordPoint of the standalone score class of a level, for each element of
\* pointWinners in turn until one call raises
RECURSIVE Score_recordPoints(_, _, _, _)
Score_recordPoints(lv, s, pointWinners, f) ==
  IF pointWinners = <<>> THEN [err |-> "none", o |-> s]
  ELSE CHOOSE res \in
         {IF r.err # "none" THEN r
          ELSE Score_recordPoints(lv, r.o, Tail(pointWinners), f)
            : r \in {IF lv = "Set" THEN SetScore_recordPoint(s, Head(pointWinners), f)
                     ELSE MatchScore_recordPoint(s, Head(pointWinners), f)}}
         : TRUE

\* the score a Set shares with its Game or Tiebreak is the one that contest holds
Set_sharesScores(o) ==
  /\ o.currentGame = o.set.hasGame
  /\ o.tiebreaker = o.set.hasTb
  /\ o.currentGame => o.game.score = o.set.game
  /\ o.tiebreaker => (o.tb.score = o.set.tb /\ o.tb.super = o.set.super)

\* the score a Match shares with its Set, and that Set with its own contest
Match_sharesScores(m) ==
  /\ m.currentSet = m.score.hasSet
  /\ m.currentSet => (m.setObj.set = m.score.set /\ Set_sharesScores(m.setObj))

\* C37: after any sequence of recorded points the score a Set or a Match
\* holds equals the score obtained by recording the same points on a
\* standalone SetScore or MatchScore (which refuses a point only once it is
\* final, where the contest ignores the point), and the sub-scores shared
\* with the current Game, Tiebreak or Set are the ones the composite's own
\* bookkeeping holds.
C37_ContestScoreIsStandaloneScore ==
  [][(pc = "play" /\ level \in {"Set", "Match"} /\ played' > played
        /\ \A i \in 1..Len(arg') : arg'[i] \in Players)
       => LET held  == IF level = "Set" THEN cur.set ELSE cur.score
              alone == Score_recordPoints(level, held, arg', fmt)
          IN /\ alone.err \in {"none", "ValueError"}
             /\ alone.err = "ValueError" => CurIsOver'
             /\ err' = "none"
             /\ alone.o = IF level = "Set" THEN cur'.set ELSE cur'.score
             /\ IF level = "Set" THEN Set_sharesScores(cur') ELSE Match_sharesScores(cur')]_vars

\* a match in which the point just recorded closed a game and a set, so that
\* the score moved at all three grains and a new Set shares its score
C37_Witness ==
  /\ pc = "play"
  /\ level = "Match"
  /\ raw = <<0, 0>>
  /\ fmt.bestOfSets = 3
  /\ err = "none"
  /\ cur.score.sets = <<0, 1>>
  /\ Len(cur.setHistory) = 1
  /\ cur.currentSet
  /\ cur.setObj.set = cur.score.set
  /\ cur.score.set.games = <<0, 0>>
  /\ cur.setObj.gameHistory = <<>>
  /\ Len(arg) = 1

----------------------------------------------------------------------------
(* The Tiebreak contest and the TiebreakPath keep the server separately: the *)
(* contest updates servesNext from the total of the score after the point,   *)
(* the path derives the server of a new entry from the total before it.      *)

\* the TiebreakPath that follows pointWinners: of the two paths increment
\* returns, the one of the point's winner; a path that is over stays
RECURSIVE TiebreakPath_follow(_, _, _, _)
TiebreakPath_follow(path, pointWinners, super, normalize) ==
  IF pointWinners = <<>> THEN path
  ELSE CHOOSE res \in
         {IF Len(inc.new) = 1 THEN path
          ELSE TiebreakPath_follow(inc.new[Head(pointWinners)], Tail(pointWinners),
                                   super, normalize)
            : inc \in {TiebreakPath_increment(path, super, normalize)}}
         : TRUE

\* the path from the initial score of the Tiebreak contest along its points
PathOfContest ==
  TiebreakPath_follow(
    TiebreakPath_init(TiebreakScore_init(raw[1], raw[2], isSuper, fmt.capPoints).s, server),
    cur.pointHistory, isSuper, fmt.capPoints)

\* C38: for any initial tiebreak score, first server and sequence of point
\* winners, the next server the Tiebreak contest reports after each point is
\* the server recorded at the same position of the TiebreakPath that follows
\* the same winners (and the two hold the same score there).
C38_ContestServerIsPathServer ==
  (pc = "play" /\ level = "Tiebreak") =>
     /\ Len(PathOfContest) = Len(cur.pointHistory) + 1
     /\ Last(PathOfContest).srv = cur.servesNext
     /\ Last(PathOfContest).score = cur.score

\* a tiebreak taken up at 1-0 with Player2 to serve, three points later: the
\* serve has changed once, after the third point of the tiebreak
C38_Witness ==
  /\ pc = "play" /\ level = "Tiebreak"
  /\ raw = <<1, 0>> /\ server = 2
  /\ cur.pointHistory = <<2, 1, 2>>
  /\ cur.servesNext = 1
  /\ PathOfContest[2].srv = 2 /\ PathOfContest[3].srv = 1 /\ PathOfContest[4].srv = 1

============================================================================
